---- MODULE Spec2Model ----
(***************************************************************************)
(* A model of the enarx/vfs workspace: the device/inode ledger             *)
(* (ledger/src/lib.rs, and its older copy src/id.rs), the in-memory        *)
(* directory tree (dir/src/lib.rs, file/src/lib.rs, memory/src/lib.rs)     *)
(* and the keystore overlay (keyfs/src).                                   *)
(***************************************************************************)
EXTENDS Naturals, Integers, Sequences, FiniteSets, TLC

VARIABLES
    copy,      \* which ledger source the pools run: "ledger" (ledger/src/lib.rs) or "id" (src/id.rs)
    cap,       \* where the model stops allocating: [ids, nodes, handles]: a pool hands out
               \* the ids 0..cap.ids-1, and there are at most cap.nodes live tree nodes
               \* and cap.handles open handles
    issued,    \* how many uuids Uuid::new_v4 has returned
    ledger,    \* Ledger.0: [set, next]: the BTreeSet and the start of the Range
    devs,      \* live DeviceId objects: object -> [id, set, next] (id and the inodes pool)
    devheld,   \* DeviceId objects the embedder holds an Arc of
    inodes,    \* live InodeId objects: object -> [dev, id]
    nodes,     \* live tree nodes: InodeId object -> [kind, parent, map, data, ctor]
    handles,   \* the open handles, a bag: [node, root, rd, wr, fl, pos, api] -> how many
    held,      \* the nodes the embedder holds an Arc of
    last       \* the last call and what it returned

treevars == <<nodes, handles, held>>

vars == <<copy, cap, issued, ledger, devs, devheld, inodes, nodes, handles, held, last>>

(***************************************************************************)
(* Bounds of the model.                                                    *)
(***************************************************************************)
\* the id ranges are 0..u64::MAX in the source; under SpecLedger the model stops
\* allocating at MaxId
MaxId == 3
\* live DeviceId objects
MaxDevs == 2
\* live InodeId objects
MaxInodes == 2
\* under Spec the model stops allocating ids at MaxTreeId
MaxTreeId == 3
\* live tree nodes
MaxNodes == 3
\* open handles
MaxHandles == 2

Min(S) == CHOOSE x \in S : \A y \in S : x <= y

\* The name of a new object: `want` (a name made of the id the object carries, so
\* that a state does not depend on the order its objects were made in), or the
\* smallest name not in use when a live object has that name already.
Fresh(S, want) ==
    IF want \notin S THEN want ELSE Min({n \in 1..(Cardinality(S) + 1) : n \notin S})

DevName(id) == id + 1

InoName(d, id) == d * cap.ids + id + 1

(***************************************************************************)
(* The id pools.  A pool is [set, next]: in ledger/src/lib.rs set is the   *)
(* ids in use, in src/id.rs it is the ids that were returned (free).       *)
(***************************************************************************)
NewPool == [set |-> {}, next |-> 0]

\* ledger/src/lib.rs: range.into_iter().find(|next| !used.contains(next)): the
\* iterator is the &mut Range itself, so the search starts at the range's start
\* and the range is left one past the id found.
LedgerCandidates(pool) == {v \in pool.next..(cap.ids - 1) : v \notin pool.set}

LedgerFind(pool) == Min(LedgerCandidates(pool))

\* the id is neither recorded nor taken from the range
LedgerCreateUnrecorded(pool) == pool

LedgerCreate(pool) ==
    LET id == LedgerFind(pool)
    IN  [set |-> pool.set \cup {id}, next |-> id + 1]

\* the drop leaves the id recorded
LedgerDropKept(pool, id) == pool

LedgerDrop(pool, id) == [pool EXCEPT !.set = @ \ {id}]

\* src/id.rs: free.iter().cloned().chain(next).next(): the smallest returned
\* id if there is one, else the next id of the range.
IdCanCreate(pool) == pool.set # {} \/ pool.next < cap.ids

IdFind(pool) == IF pool.set # {} THEN Min(pool.set) ELSE pool.next

IdCreate(pool) ==
    IF pool.set # {}
    THEN [pool EXCEPT !.set = @ \ {Min(pool.set)}]
    ELSE [pool EXCEPT !.next = @ + 1]

IdDrop(pool, id) == [pool EXCEPT !.set = @ \cup {id}]

\* the pool operations of the copy in use
CanCreate(pool) ==
    IF copy = "ledger" THEN LedgerCandidates(pool) # {} ELSE IdCanCreate(pool)

FindId(pool) == IF copy = "ledger" THEN LedgerFind(pool) ELSE IdFind(pool)

PoolCreate(pool) == IF copy = "ledger" THEN LedgerCreate(pool) ELSE IdCreate(pool)

PoolDrop(pool, id) == IF copy = "ledger" THEN LedgerDrop(pool, id) ELSE IdDrop(pool, id)

(***************************************************************************)
(* Liveness of the ids.                                                    *)
(***************************************************************************)
\* the InodeId objects that hold an Arc of DeviceId object d
InodesOf(ino, d) == {i \in DOMAIN ino : ino[i].dev = d}

\* ids of the live DeviceIds, ids of the live InodeIds of device d
LiveDeviceIds == {devs[d].id : d \in DOMAIN devs}

LiveInodeIds(d) == {inodes[i].id : i \in InodesOf(inodes, d)}

\* Drop for DeviceId runs when no Arc of it is left: neither the embedder nor
\* an InodeId holds one.  Returns the ledger pool and the device table after
\* the drops that the holders and the inode table `ino` leave due.
DeadDevs(dv, holders, ino) == {d \in DOMAIN dv : d \notin holders /\ InodesOf(ino, d) = {}}

RECURSIVE DropDevices(_, _, _)
DropDevices(lg, dv, dead) ==
    IF dead = {} THEN <<lg, dv>>
    ELSE LET d == Min(dead)
         IN  DropDevices(PoolDrop(lg, dv[d].id),
                         [x \in (DOMAIN dv) \ {d} |-> dv[x]],
                         dead \ {d})

NoCall == [op |-> "none", id |-> 0, obj |-> 0]

(***************************************************************************)
(* The ledger's operations, called by the embedder.                        *)
(***************************************************************************)
\* Ledger::create_device
create_device ==
    /\ CanCreate(ledger)
    /\ Cardinality(DOMAIN devs) < MaxDevs
    /\ LET id == FindId(ledger)
           d  == Fresh(DOMAIN devs, DevName(id))
       IN  /\ ledger' = PoolCreate(ledger)
           /\ devs' = [x \in (DOMAIN devs) \cup {d} |->
                         IF x = d THEN [id |-> id, set |-> {}, next |-> 0] ELSE devs[x]]
           /\ devheld' = devheld \cup {d}
           /\ last' = [op |-> "create_device", id |-> id, obj |-> 0]
    /\ UNCHANGED <<copy, cap, issued, inodes, treevars>>

\* DeviceId::create_inode on an Arc of device d
create_inode(d) ==
    /\ d \in DOMAIN devs
    /\ CanCreate(devs[d])
    /\ Cardinality(DOMAIN inodes) < MaxInodes
    /\ LET id == FindId(devs[d])
           i  == Fresh(DOMAIN inodes, InoName(d, id))
           p  == PoolCreate(devs[d])
       IN  /\ devs' = [devs EXCEPT ![d] = [id |-> devs[d].id, set |-> p.set, next |-> p.next]]
           /\ inodes' = [x \in (DOMAIN inodes) \cup {i} |->
                           IF x = i THEN [dev |-> d, id |-> id] ELSE inodes[x]]
           /\ last' = [op |-> "create_inode", id |-> id, obj |-> d]
    /\ UNCHANGED <<copy, cap, issued, ledger, devheld, treevars>>

\* InodeId::device: the embedder takes an Arc of the inode's device
inode_device(i) ==
    /\ i \in DOMAIN inodes
    /\ inodes[i].dev \notin devheld
    /\ devheld' = devheld \cup {inodes[i].dev}
    /\ last' = [op |-> "device", id |-> 0, obj |-> 0]
    /\ UNCHANGED <<copy, cap, issued, ledger, devs, inodes, treevars>>

\* Drop for InodeId, then of its Arc<DeviceId>
drop_inode(i) ==
    /\ i \in DOMAIN inodes
    /\ LET d    == inodes[i].dev
           p    == PoolDrop(devs[d], inodes[i].id)
           ino  == [x \in (DOMAIN inodes) \ {i} |-> inodes[x]]
           dv   == [devs EXCEPT ![d] = [id |-> devs[d].id, set |-> p.set, next |-> p.next]]
           r    == DropDevices(ledger, dv, DeadDevs(dv, devheld, ino))
       IN  /\ inodes' = ino
           /\ ledger' = r[1]
           /\ devs' = r[2]
           /\ last' = [op |-> "drop_inode", id |-> 0, obj |-> 0]
    /\ UNCHANGED <<copy, cap, issued, devheld, treevars>>

\* the embedder drops its Arc<DeviceId>
drop_device(d) ==
    /\ d \in devheld
    /\ LET holders == devheld \ {d}
           r       == DropDevices(ledger, devs, DeadDevs(devs, holders, inodes))
       IN  /\ devheld' = holders
           /\ ledger' = r[1]
           /\ devs' = r[2]
           /\ last' = [op |-> "drop_device", id |-> 0, obj |-> 0]
    /\ UNCHANGED <<copy, cap, issued, inodes, treevars>>

InitLedger ==
    /\ copy \in {"ledger", "id"}
    /\ cap = [ids |-> MaxId, nodes |-> 0, handles |-> 0]
    /\ issued = 0
    /\ ledger = NewPool
    /\ devs = << >>
    /\ devheld = {}
    /\ inodes = << >>
    /\ nodes = << >>
    /\ handles = << >>
    /\ held = {}
    /\ last = NoCall

NextLedger ==
    \/ create_device
    \/ \E d \in DOMAIN devs : create_inode(d)
    \/ \E i \in DOMAIN inodes : inode_device(i)
    \/ \E i \in DOMAIN inodes : drop_inode(i)
    \/ \E d \in devheld : drop_device(d)

SpecLedger == InitLedger /\ [][NextLedger]_vars

(***************************************************************************)
(* The tree: memory/src/lib.rs (Node, Link, Inode, Open, State),           *)
(* dir/src/lib.rs (Directory, OpenDir), file/src/lib.rs (File).            *)
(*                                                                         *)
(* A world is [ledger, devs, inodes, nodes]: the operations are written    *)
(* as functions from a world to a result and a world.                      *)
(***************************************************************************)
World == [ledger |-> ledger, devs |-> devs, inodes |-> inodes, nodes |-> nodes]

\* names of directory entries, and the path segments calls are made with
Names == {"a", "b"}

Segs == Names \cup {"", ".", ".."}

\* a path is the sequence of its segments between separators: "a/b" is <<"a", "b">>,
\* "" is <<"">>, "a/" is <<"a", "">>
Paths ==
    {<<s>> : s \in Segs} \cup {<<"a", "a">>, <<"a", "b">>, <<"a", "..">>, <<"b", "a">>, <<"", "a">>}

Ext(f, k, v) == [x \in (DOMAIN f) \cup {k} |-> IF x = k THEN v ELSE f[x]]

\* the paths SpecOpen calls open_file with, and those its embedder attaches at
OpenPaths == {<<s>> : s \in Segs} \cup {<<"a", "a">>, <<"b", "a">>}

AttachPaths == {<<"a">>, <<"a", "a">>}

Without(f, k) == [x \in (DOMAIN f) \ {k} |-> f[x]]

\* **node.id().device(): the id of the node's device
DevIdOf(w, n) == w.devs[w.inodes[n].dev].id

\* every two nodes pass for nodes of one device
SameDeviceAny(w, a, b) == TRUE

\* PartialEq for DeviceId: by id alone
SameDevice(w, a, b) == DevIdOf(w, a) = DevIdOf(w, b)

IsDir(w, n) == w.nodes[n].kind = "dir"

\* Node::filetype
FileType(w, n) ==
    CASE w.nodes[n].kind = "dir" -> "Directory"
      [] w.nodes[n].kind = "file" -> "RegularFile"
      [] OTHER -> "SocketDgram"

\* the parent of the root-less directory is the node made first
PrevFirst(w, n) == IF w.nodes[n].parent # 0 THEN w.nodes[n].parent ELSE Min(DOMAIN w.nodes)

\* Directory::prev: the parent if the weak link upgrades, else the directory
Prev(w, n) == IF w.nodes[n].parent # 0 THEN w.nodes[n].parent ELSE n

\* Node::root: follow the parent links while they upgrade
RECURSIVE RootOf(_, _)
RootOf(w, n) == IF w.nodes[n].parent = 0 THEN n ELSE RootOf(w, w.nodes[n].parent)

(***************************************************************************)
(* Making nodes.                                                           *)
(***************************************************************************)
CanMkNode(w, d) == CanCreate(w.devs[d]) /\ Cardinality(DOMAIN w.nodes) < cap.nodes

\* device.create_inode() and the Arc of the new node: [w, n]
MkNode(w, d, rec) ==
    LET id == FindId(w.devs[d])
        p  == PoolCreate(w.devs[d])
        n  == Fresh(DOMAIN w.inodes, InoName(d, id))
    IN  [w |-> [w EXCEPT !.devs[d] = [id |-> w.devs[d].id, set |-> p.set, next |-> p.next],
                         !.inodes = Ext(w.inodes, n, [dev |-> d, id |-> id]),
                         !.nodes = Ext(w.nodes, n, rec)],
         n |-> n]

\* a directory made without its parent link
DirRecOrphan(parent, ctor) ==
    [kind |-> "dir", parent |-> 0, map |-> << >>, data |-> << >>, ctor |-> ctor,
     create |-> 0, access |-> 0, modify |-> 0]

\* Directory::new_at: an empty directory
DirRec(parent, ctor) ==
    [kind |-> "dir", parent |-> parent, map |-> << >>, data |-> << >>, ctor |-> ctor,
     create |-> 0, access |-> 0, modify |-> 0]

\* File::with_data
FileRec(parent, data) ==
    [kind |-> "file", parent |-> parent, map |-> << >>, data |-> data, ctor |-> FALSE,
     create |-> 0, access |-> 0, modify |-> 0]

\* ledger.create_device(): [w, d]
CanMkDevice(w) == CanCreate(w.ledger) /\ Cardinality(DOMAIN w.devs) < MaxDevs

MkDevice(w) ==
    LET id == FindId(w.ledger)
        d  == Fresh(DOMAIN w.devs, DevName(id))
    IN  [w |-> [w EXCEPT !.ledger = PoolCreate(w.ledger),
                         !.devs = Ext(w.devs, d, [id |-> id, set |-> {}, next |-> 0])],
         d |-> d]

\* the directory is made on a device of its own
DirectoryOwnDevice(w, parent, ctor) ==
    LET m == MkDevice(w) IN MkNode(m.w, m.d, DirRec(parent, ctor))

\* Directory::new: on the parent's device, with the given constructor
DirectoryNew(w, parent, ctor) == MkNode(w, w.inodes[parent].dev, DirRec(parent, ctor))

\* File::new / File::with_data: on the parent's device
FileWithData(w, parent, data) == MkNode(w, w.inodes[parent].dev, FileRec(parent, data))

\* Directory::device: a directory on a new device of the parent's ledger
DirectoryDevice(w, parent, ctor) ==
    LET m == MkDevice(w) IN MkNode(m.w, m.d, DirRec(parent, ctor))

\* Directory::root: a directory without parent on a new device
DirectoryRoot(w, ctor) ==
    LET m == MkDevice(w) IN MkNode(m.w, m.d, DirRec(0, ctor))

(***************************************************************************)
(* Dropping nodes.  A node lives while an Arc of it is left: in a          *)
(* directory's map, in an open handle (link and root) or with the          *)
(* embedder.  Dropping a node drops its InodeId, and the DeviceId with the *)
(* last InodeId; a Weak to a dropped node no longer upgrades.              *)
(***************************************************************************)
Children(nd, n) == {nd[n].map[k] : k \in DOMAIN nd[n].map}

RECURSIVE Reach(_, _)
Reach(nd, S) ==
    LET T == S \cup UNION {Children(nd, n) : n \in S}
    IN  IF T = S THEN S ELSE Reach(nd, T)

\* a handle holds its node alone
StrongLink(hs, hd) == hd \cup {h.node : h \in DOMAIN hs}

Strong(hs, hd) == hd \cup {h.node : h \in DOMAIN hs} \cup {h.root : h \in DOMAIN hs}

RECURSIVE PoolDropAll(_, _)
PoolDropAll(pool, ids) ==
    IF ids = {} THEN pool
    ELSE LET id == Min(ids) IN PoolDropAll(PoolDrop(pool, id), ids \ {id})

Collect(w, strong) ==
    LET R    == Reach(w.nodes, strong)
        gone == (DOMAIN w.nodes) \ R
        nd   == [n \in R |-> [w.nodes[n] EXCEPT !.parent = IF @ \in R THEN @ ELSE 0]]
        ino  == [n \in R |-> w.inodes[n]]
        dv   == [d \in DOMAIN w.devs |->
                   LET p == PoolDropAll(w.devs[d], {w.inodes[n].id : n \in {x \in gone : w.inodes[x].dev = d}})
                   IN  [id |-> w.devs[d].id, set |-> p.set, next |-> p.next]]
        r    == DropDevices(w.ledger, dv, DeadDevs(dv, devheld, ino))
    IN  [ledger |-> r[1], devs |-> r[2], inodes |-> ino, nodes |-> nd]

\* the state after a call that left world w and handles hs
Commit(w, hs) ==
    LET g == Collect(w, Strong(hs, held))
    IN  /\ ledger' = g.ledger
        /\ devs' = g.devs
        /\ inodes' = g.inodes
        /\ nodes' = g.nodes
        /\ handles' = hs

(***************************************************************************)
(* Path resolution of the directory handle (OpenDir).                      *)
(***************************************************************************)
\* Node::open_dir
NodeOpenDir(w, n) ==
    IF IsDir(w, n) THEN [err |-> "ok", n |-> n] ELSE [err |-> "notdir", n |-> 0]

\* OpenDir::open_dir on a path without separator
OpenDirSeg(w, d, seg) ==
    CASE seg = ""   -> [err |-> "inval", n |-> 0]
      [] seg = "."  -> NodeOpenDir(w, d)
      [] seg = ".." -> NodeOpenDir(w, Prev(w, d))
      [] OTHER      ->
            IF seg \notin DOMAIN w.nodes[d].map
            THEN [err |-> "noent", n |-> 0]
            ELSE NodeOpenDir(w, w.nodes[d].map[seg])

\* `if let Some((lhs, rhs)) = path.split_once(SEP)`: open lhs, recurse on rhs.
\* [err, dir, name]: the directory the last segment is handled in, and that segment
RECURSIVE Descend(_, _, _)
Descend(w, d, path) ==
    IF Len(path) = 1 THEN [err |-> "ok", dir |-> d, name |-> path[1]]
    ELSE LET r == OpenDirSeg(w, d, Head(path))
         IN  IF r.err # "ok" THEN [err |-> r.err, dir |-> 0, name |-> ""]
             ELSE Descend(w, r.n, Tail(path))

Reserved == {"", ".", ".."}

\* OpenDir::open_dir: [err, n]
OpenDir(w, d, path) ==
    LET r == Descend(w, d, path)
    IN  IF r.err # "ok" THEN [err |-> r.err, n |-> 0] ELSE OpenDirSeg(w, r.dir, r.name)

\* create_dir that makes whatever name it is given
CreateDirAtAnyName(w, d, name) ==
    IF name \in DOMAIN w.nodes[d].map THEN [err |-> "exist", w |-> w]
    ELSE IF ~CanMkNode(w, w.inodes[d].dev) THEN [err |-> "nocap", w |-> w]
    ELSE LET m == DirectoryNew(w, d, w.nodes[d].ctor)
         IN  [err |-> "ok", w |-> [m.w EXCEPT !.nodes[d].map = Ext(@, name, m.n)]]

\* OpenDir::create_dir at the last segment: [err, w]
CreateDirAt(w, d, name) ==
    IF name \in Reserved THEN [err |-> "inval", w |-> w]
    ELSE IF name \in DOMAIN w.nodes[d].map THEN [err |-> "exist", w |-> w]
    ELSE IF ~CanMkNode(w, w.inodes[d].dev) THEN [err |-> "nocap", w |-> w]
    ELSE LET m == DirectoryNew(w, d, w.nodes[d].ctor)
         IN  [err |-> "ok", w |-> [m.w EXCEPT !.nodes[d].map = Ext(@, name, m.n)]]

\* OpenDir::remove_dir at the last segment: [err, w]
RemoveDirAt(w, d, name) ==
    IF name \in Reserved THEN [err |-> "inval", w |-> w]
    ELSE IF name \notin DOMAIN w.nodes[d].map THEN [err |-> "noent", w |-> w]
    ELSE LET c == w.nodes[d].map[name]
         IN  IF ~SameDevice(w, d, c) THEN [err |-> "io", w |-> w]
             ELSE IF ~IsDir(w, c) THEN [err |-> "notdir", w |-> w]
             ELSE IF DOMAIN w.nodes[c].map = {} THEN [err |-> "io", w |-> w]
             ELSE [err |-> "ok", w |-> [w EXCEPT !.nodes[d].map = Without(@, name)]]

\* unlink_file without the test of the file type
UnlinkFileAtAnyType(w, d, name) ==
    IF name \in Reserved THEN [err |-> "inval", w |-> w]
    ELSE IF name \notin DOMAIN w.nodes[d].map THEN [err |-> "noent", w |-> w]
    ELSE IF ~SameDevice(w, d, w.nodes[d].map[name]) THEN [err |-> "io", w |-> w]
    ELSE [err |-> "ok", w |-> [w EXCEPT !.nodes[d].map = Without(@, name)]]

\* OpenDir::unlink_file at the last segment: [err, w]
UnlinkFileAt(w, d, name) ==
    IF name \in Reserved THEN [err |-> "inval", w |-> w]
    ELSE IF name \notin DOMAIN w.nodes[d].map THEN [err |-> "noent", w |-> w]
    ELSE LET c == w.nodes[d].map[name]
         IN  IF FileType(w, c) = "Directory" THEN [err |-> "io", w |-> w]
             ELSE IF ~SameDevice(w, d, c) THEN [err |-> "io", w |-> w]
             ELSE [err |-> "ok", w |-> [w EXCEPT !.nodes[d].map = Without(@, name)]]

\* the map's names from the last to the first
NamesDescending == <<"verify", "trust", "sign", "share", "generate", "b", "a", "0003", "0002", "0001">>

\* the order BTreeMap iterates the names in
NameOrder == <<"0001", "0002", "0003", "a", "b", "generate", "share", "sign", "trust", "verify">>

\* OpenDir::readdir from cursor 0: ".", "..", then the entries in the map's order;
\* w needs the nodes only
Readdir(w, d) ==
    LET keys == SelectSeq(NameOrder, LAMBDA k : k \in DOMAIN w.nodes[d].map)
        up   == Prev(w, d)
    IN  <<[name |-> ".", node |-> d], [name |-> "..", node |-> up]>>
            \o [i \in 1..Len(keys) |-> [name |-> keys[i], node |-> w.nodes[d].map[keys[i]]]]

\* OpenDir::readdir: the ReaddirEntity values, after skip(cursor)
ReaddirFrom(w, d, cursor) ==
    LET all == Readdir(w, d)
        ent == [i \in 1..Len(all) |->
                  [name |-> all[i].name, next |-> i, inode |-> w.inodes[all[i].node].id,
                   filetype |-> FileType(w, all[i].node)]]
    IN  SubSeq(ent, cursor + 1, Len(ent))

\* the descent, then the operation op at the last segment: [err, w, dir, name]
DirCall(op, w, d, path) ==
    LET r == Descend(w, d, path)
    IN  IF r.err # "ok" THEN [err |-> r.err, w |-> w, dir |-> 0, name |-> ""]
        ELSE LET x == CASE op = "create_dir" -> CreateDirAt(w, r.dir, r.name)
                        [] op = "remove_dir" -> RemoveDirAt(w, r.dir, r.name)
                        [] op = "unlink_file" -> UnlinkFileAt(w, r.dir, r.name)
             IN  [err |-> x.err, w |-> x.w, dir |-> r.dir, name |-> r.name]

(***************************************************************************)
(* Directory::get and Directory::attach, called by the embedder.           *)
(***************************************************************************)
\* path.trim_end_matches(SEP): the trailing empty segments go, one segment stays
RECURSIVE TrimEnd(_)
TrimEnd(path) ==
    IF Len(path) > 1 /\ path[Len(path)] = "" THEN TrimEnd(SubSeq(path, 1, Len(path) - 1))
    ELSE path

\* the loop of Directory::get over the segments: ".." is self.prev(), of the
\* directory get was called on
RECURSIVE GetWalk(_, _, _, _)
GetWalk(w, self, this, segs) ==
    IF segs = << >> THEN [err |-> "ok", n |-> this]
    ELSE LET seg == Head(segs)
         IN  CASE seg \in {"", "."} -> GetWalk(w, self, this, Tail(segs))
               [] seg = ".." -> GetWalk(w, self, Prev(w, self), Tail(segs))
               [] OTHER ->
                    IF ~IsDir(w, this) THEN [err |-> "notdir", n |-> 0]
                    ELSE IF seg \notin DOMAIN w.nodes[this].map THEN [err |-> "noent", n |-> 0]
                    ELSE GetWalk(w, self, w.nodes[this].map[seg], Tail(segs))

Get(w, self, path) == GetWalk(w, self, self, TrimEnd(path))

\* attach that puts the node in place of an entry of the same name
AttachOver(w, self, path, n) ==
    LET p    == TrimEnd(path)
        name == p[Len(p)]
        g    == IF Len(p) = 1 THEN [err |-> "ok", n |-> self]
                ELSE Get(w, self, SubSeq(p, 1, Len(p) - 1))
    IN  IF g.err # "ok" THEN [err |-> g.err, w |-> w, dir |-> 0, name |-> ""]
        ELSE IF ~IsDir(w, g.n) THEN [err |-> "notdir", w |-> w, dir |-> 0, name |-> ""]
        ELSE IF name \in Reserved THEN [err |-> "inval", w |-> w, dir |-> g.n, name |-> name]
        ELSE [err |-> "ok", w |-> [w EXCEPT !.nodes[g.n].map = Ext(@, name, n)],
              dir |-> g.n, name |-> name]

\* Directory::attach of node n: [err, w, dir, name]
Attach(w, self, path, n) ==
    LET p    == TrimEnd(path)
        name == p[Len(p)]
        g    == IF Len(p) = 1 THEN [err |-> "ok", n |-> self]
                ELSE Get(w, self, SubSeq(p, 1, Len(p) - 1))
    IN  IF g.err # "ok" THEN [err |-> g.err, w |-> w, dir |-> 0, name |-> ""]
        ELSE IF ~IsDir(w, g.n) THEN [err |-> "notdir", w |-> w, dir |-> 0, name |-> ""]
        ELSE IF name \in Reserved THEN [err |-> "inval", w |-> w, dir |-> g.n, name |-> name]
        ELSE IF name \in DOMAIN w.nodes[g.n].map
             THEN [err |-> "exist", w |-> w, dir |-> g.n, name |-> name]
        ELSE [err |-> "ok", w |-> [w EXCEPT !.nodes[g.n].map = Ext(@, name, n)],
              dir |-> g.n, name |-> name]

(***************************************************************************)
(* OpenDir::open_file.                                                     *)
(***************************************************************************)
OFlagBits == {"CREATE", "DIRECTORY", "EXCLUSIVE", "TRUNCATE"}

\* the sets without CREATE|TRUNCATE
SevenOFlags ==
    { {},
      {"CREATE"},
      {"DIRECTORY"},
      {"TRUNCATE"},
      {"CREATE", "DIRECTORY"},
      {"CREATE", "EXCLUSIVE"},
      {"CREATE", "DIRECTORY", "EXCLUSIVE"} }

VALID_OFLAGS ==
    { {},
      {"CREATE"},
      {"DIRECTORY"},
      {"TRUNCATE"},
      {"CREATE", "DIRECTORY"},
      {"CREATE", "EXCLUSIVE"},
      {"CREATE", "TRUNCATE"},
      {"CREATE", "DIRECTORY", "EXCLUSIVE"} }

\* the read, write and FdFlags open_file is called with
Modes ==
    { [rd |-> TRUE, wr |-> FALSE, fl |-> {}],
      [rd |-> TRUE, wr |-> TRUE,  fl |-> {"APPEND"}] }

\* the content the embedder makes files with
FileData == <<1>>

NoHandle == [node |-> 0, root |-> 0, rd |-> FALSE, wr |-> FALSE, fl |-> {}, pos |-> 0, api |-> "none", hash |-> << >>]

\* Open { root: self.root(), link: self, state: State::from(flags), write, read }
OpenRec(w, n, rd, wr, fl, api) ==
    [node |-> n, root |-> RootOf(w, n), rd |-> rd, wr |-> wr, fl |-> fl, pos |-> 0, api |-> api, hash |-> << >>]

\* Node::open_file of the node kinds: [err, h]
\* no node looks at read and write
NodeOpenFileAny(w, n, odir, rd, wr, fl) ==
    IF odir /\ w.nodes[n].kind # "dir" THEN [err |-> "notdir", h |-> NoHandle]
    ELSE [err |-> "ok", h |-> OpenRec(w, n, rd, wr, fl, "file")]

NodeOpenFile(w, n, odir, rd, wr, fl) ==
    LET k  == w.nodes[n].kind
        no == [err |-> "ok", h |-> NoHandle]
    IN  CASE k = "dir" -> [err |-> "ok", h |-> OpenRec(w, n, rd, wr, fl, "file")]
          [] k = "file" ->
                IF odir THEN [no EXCEPT !.err = "notdir"]
                ELSE [err |-> "ok", h |-> OpenRec(w, n, rd, wr, fl, "file")]
          [] k = "share" ->
                IF odir THEN [no EXCEPT !.err = "notdir"]
                ELSE IF ~rd \/ wr \/ fl # {} THEN [no EXCEPT !.err = "perm"]
                ELSE [err |-> "ok", h |-> OpenRec(w, n, rd, wr, fl, "file")]
          [] k = "verify" ->
                IF odir THEN [no EXCEPT !.err = "notdir"]
                ELSE IF rd \/ ~wr THEN [no EXCEPT !.err = "perm"]
                ELSE IF fl # {} THEN [no EXCEPT !.err = "inval"]
                ELSE [err |-> "ok", h |-> OpenRec(w, n, rd, wr, fl, "file")]
          [] OTHER ->  \* generate, sign, trust
                IF odir THEN [no EXCEPT !.err = "notdir"]
                ELSE IF ~rd \/ ~wr THEN [no EXCEPT !.err = "perm"]
                ELSE IF fl # {} THEN [no EXCEPT !.err = "inval"]
                ELSE [err |-> "ok", h |-> OpenRec(w, n, rd, wr, fl, "file")]

\* the size is left as it is
SetFilestatSizeKept(w, h) == [err |-> "ok", w |-> w]

\* WasiFile::set_filestat_size(0) on a handle just opened: [err, w]
SetFilestatSize0(w, h) ==
    LET k == w.nodes[h.node].kind
    IN  CASE k = "dir" -> [err |-> "notsup", w |-> w]
          [] k = "file" ->
                IF ~h.wr THEN [err |-> "io", w |-> w]
                ELSE [err |-> "ok", w |-> [w EXCEPT !.nodes[h.node].data = << >>]]
          [] OTHER -> [err |-> "badf", w |-> w]

\* no name collides
NeverCollides(has, ofl) == FALSE

\* `(Some(_), true) if oflags.contains(OFlags::EXCLUSIVE)`
Collides(has, ofl) == has /\ "CREATE" \in ofl /\ "EXCLUSIVE" \in ofl

\* the `name =>` arm of open_file: [err, w, h]
OpenFileName(w, d, name, ofl, rd, wr, fl) ==
    LET odir == "DIRECTORY" \in ofl
        has  == name \in DOMAIN w.nodes[d].map
        fail == [err |-> "ok", w |-> w, h |-> NoHandle]
    IN  IF Collides(has, ofl) THEN [fail EXCEPT !.err = "exist"]
        ELSE IF ~has /\ "CREATE" \notin ofl THEN [fail EXCEPT !.err = "noent"]
        ELSE IF ~has THEN
            IF ~odir /\ ~w.nodes[d].ctor THEN [fail EXCEPT !.err = "notsup"]
            ELSE IF ~CanMkNode(w, w.inodes[d].dev) THEN [fail EXCEPT !.err = "nocap"]
            ELSE LET m  == IF odir THEN DirectoryNew(w, d, w.nodes[d].ctor)
                           ELSE FileWithData(w, d, << >>)
                     w2 == [m.w EXCEPT !.nodes[d].map = Ext(@, name, m.n)]
                     o  == NodeOpenFile(w2, m.n, odir, rd, wr, fl)
                 IN  [err |-> o.err, w |-> w2, h |-> o.h]
        ELSE IF "TRUNCATE" \in ofl THEN
            LET o == NodeOpenFile(w, w.nodes[d].map[name], odir, FALSE, TRUE, {})
            IN  IF o.err # "ok" THEN [fail EXCEPT !.err = o.err]
                ELSE LET t == SetFilestatSize0(w, o.h)
                     IN  IF t.err # "ok" THEN [fail EXCEPT !.err = t.err]
                         ELSE [err |-> "ok", w |-> t.w, h |-> o.h]
        ELSE LET o == NodeOpenFile(w, w.nodes[d].map[name], odir, rd, wr, fl)
             IN  [err |-> o.err, w |-> w, h |-> o.h]

\* OpenDir::open_file at the last segment: [err, w, h]
OpenFileAt(w, d, name, ofl, rd, wr, fl) ==
    LET odir == "DIRECTORY" \in ofl
        fail == [err |-> "ok", w |-> w, h |-> NoHandle]
        self == NodeOpenFile(w, d, odir, rd, wr, fl)
        up   == NodeOpenFile(w, Prev(w, d), odir, rd, wr, fl)
    IN  IF ofl \notin VALID_OFLAGS THEN [fail EXCEPT !.err = "inval"]
        ELSE IF "TRUNCATE" \in ofl /\ ~wr THEN [fail EXCEPT !.err = "inval"]
        ELSE CASE name = "." /\ "EXCLUSIVE" \in ofl -> [fail EXCEPT !.err = "exist"]
               [] name = "." /\ "EXCLUSIVE" \notin ofl /\ "TRUNCATE" \in ofl -> [fail EXCEPT !.err = "io"]
               [] name = "." /\ "EXCLUSIVE" \notin ofl /\ "TRUNCATE" \notin ofl ->
                     [err |-> self.err, w |-> w, h |-> self.h]
               [] name = "" -> [err |-> self.err, w |-> w, h |-> self.h]
               [] name = ".." /\ "EXCLUSIVE" \in ofl -> [fail EXCEPT !.err = "exist"]
               [] name = ".." /\ "EXCLUSIVE" \notin ofl /\ "TRUNCATE" \in ofl -> [fail EXCEPT !.err = "io"]
               [] name = ".." /\ "EXCLUSIVE" \notin ofl /\ "TRUNCATE" \notin ofl ->
                     [err |-> up.err, w |-> w, h |-> up.h]
               [] OTHER -> OpenFileName(w, d, name, ofl, rd, wr, fl)

\* the descent, then the last segment: [err, w, h, dir, name]
OpenFile(w, d, path, ofl, rd, wr, fl) ==
    LET r == Descend(w, d, path)
    IN  IF r.err # "ok" THEN [err |-> r.err, w |-> w, h |-> NoHandle, dir |-> 0, name |-> ""]
        ELSE LET x == OpenFileAt(w, r.dir, r.name, ofl, rd, wr, fl)
             IN  [err |-> x.err, w |-> x.w, h |-> x.h, dir |-> r.dir, name |-> r.name]

(***************************************************************************)
(* The calls on the tree.  `last` keeps the call: the directory the last   *)
(* segment was handled in (0 if the descent failed), the last segment, the *)
(* arguments of open_file and the result, the node the call was made on,   *)
(* the whole path, and for some calls the value returned.                  *)
(***************************************************************************)
Call(op, dir, name, ofl, rd, wr, fl, res) ==
    [op |-> op, dir |-> dir, name |-> name, ofl |-> ofl, rd |-> rd, wr |-> wr, fl |-> fl, res |-> res,
     at |-> 0, path |-> << >>, arg |-> << >>, out |-> << >>]

\* the call was made on node n (of a handle, or of the embedder) with the path
On(n, path, call) == [call EXCEPT !.at = n, !.path = path]

NoTreeCall == Call("none", 0, "", {}, FALSE, FALSE, {}, "ok")

\* the caller has taken the result of its last call and makes the next
Idle == last = NoTreeCall

DirOp(op, r) == Call(op, r.dir, r.name, {}, FALSE, FALSE, {}, r.err)

\* a handle more, a handle less, and how many there are
HAdd(hs, h) == IF h \in DOMAIN hs THEN [hs EXCEPT ![h] = @ + 1] ELSE Ext(hs, h, 1)

HDel(hs, h) == IF hs[h] > 1 THEN [hs EXCEPT ![h] = @ - 1] ELSE Without(hs, h)

RECURSIVE HCount(_)
HCount(hs) ==
    IF DOMAIN hs = {} THEN 0
    ELSE LET h == CHOOSE x \in DOMAIN hs : TRUE IN hs[h] + HCount(Without(hs, h))

HasRoom == HCount(handles) < cap.handles

\* the handles WasiDir calls are made on: those Node::open_dir and open_dir gave
DirHandles == {h \in DOMAIN handles : h.api = "dir"}

\* Node::open_dir on a node the embedder holds
node_open_dir(n) ==
    /\ Idle
    /\ n \in held
    /\ IsDir(World, n)
    /\ HasRoom
    /\ Commit(World, HAdd(handles, OpenRec(World, n, FALSE, FALSE, {}, "dir")))
    /\ last' = Call("node_open_dir", n, "", {}, FALSE, FALSE, {}, "ok")
    /\ UNCHANGED <<copy, cap, issued, devheld, held>>

\* WasiDir::open_dir
open_dir(h, path) ==
    /\ Idle
    /\ h \in DirHandles
    /\ LET r == OpenDir(World, h.node, path)
       IN  /\ r.err = "ok" => HasRoom
           /\ Commit(World, IF r.err = "ok"
                            THEN HAdd(handles, OpenRec(World, r.n, FALSE, FALSE, {}, "dir"))
                            ELSE handles)
           /\ last' = On(h.node, path, Call("open_dir", r.n, "", {}, FALSE, FALSE, {}, r.err))
    /\ UNCHANGED <<copy, cap, issued, devheld, held>>

\* WasiDir::create_dir
create_dir(h, path) ==
    /\ Idle
    /\ h \in DirHandles
    /\ LET r == DirCall("create_dir", World, h.node, path)
       IN  /\ r.err # "nocap"
           /\ Commit(r.w, handles)
           /\ last' = On(h.node, path, DirOp("create_dir", r))
    /\ UNCHANGED <<copy, cap, issued, devheld, held>>

\* WasiDir::remove_dir
remove_dir(h, path) ==
    /\ Idle
    /\ h \in DirHandles
    /\ LET r == DirCall("remove_dir", World, h.node, path)
       IN  /\ Commit(r.w, handles)
           /\ last' = On(h.node, path, DirOp("remove_dir", r))
    /\ UNCHANGED <<copy, cap, issued, devheld, held>>

\* WasiDir::unlink_file
unlink_file(h, path) ==
    /\ Idle
    /\ h \in DirHandles
    /\ LET r == DirCall("unlink_file", World, h.node, path)
       IN  /\ Commit(r.w, handles)
           /\ last' = On(h.node, path, DirOp("unlink_file", r))
    /\ UNCHANGED <<copy, cap, issued, devheld, held>>

\* WasiDir::open_file
open_file(h, path, ofl, rd, wr, fl) ==
    /\ Idle
    /\ h \in DirHandles
    /\ LET r == OpenFile(World, h.node, path, ofl, rd, wr, fl)
       IN  /\ r.err # "nocap"
           /\ r.err = "ok" => HasRoom
           /\ Commit(r.w, IF r.err = "ok" THEN HAdd(handles, r.h) ELSE handles)
           /\ last' = On(h.node, path, Call("open_file", r.dir, r.name, ofl, rd, wr, fl, r.err))
    /\ UNCHANGED <<copy, cap, issued, devheld, held>>

\* the handle is dropped
close(h) ==
    /\ Idle
    /\ h \in DOMAIN handles
    /\ Commit(World, HDel(handles, h))
    /\ last' = Call("close", 0, "", {}, FALSE, FALSE, {}, "ok")
    /\ UNCHANGED <<copy, cap, issued, devheld, held>>

\* the directories the embedder reaches with Directory::get from what it holds
Gettable == {n \in Reach(nodes, held) : IsDir(World, n)}

\* the directory Directory::attach puts the last segment of path in, 0 if none
Container(self, path) ==
    LET p == TrimEnd(path)
        g == IF Len(p) = 1 THEN [err |-> "ok", n |-> self]
             ELSE Get(World, self, SubSeq(p, 1, Len(p) - 1))
    IN  IF g.err = "ok" /\ IsDir(World, g.n) THEN g.n ELSE 0

\* self.attach(path, node) with the node mk = [w, n] just made
AttachNew(self, path, mk) ==
    LET a == Attach(mk.w, self, path, mk.n)
    IN  /\ Commit(a.w, handles)
        /\ last' = On(self, path, [DirOp("attach", a) EXCEPT !.out = <<mk.n>>])

\* self.attach(path, File::with_data(p, data)), p a directory the embedder got
attach_file(self, path, p) ==
    /\ Idle
    /\ self \in held
    /\ p \in Gettable
    /\ CanMkNode(World, inodes[p].dev)
    /\ AttachNew(self, path, FileWithData(World, p, FileData))
    /\ UNCHANGED <<copy, cap, issued, devheld, held>>

\* self.attach(path, Directory::new(p, create_file)), p the directory it goes in
\* and create_file that of p
attach_dir(self, path) ==
    /\ Idle
    /\ self \in held
    /\ Container(self, path) # 0
    /\ CanMkNode(World, inodes[Container(self, path)].dev)
    /\ LET p == Container(self, path)
       IN  AttachNew(self, path, DirectoryNew(World, p, nodes[p].ctor))
    /\ UNCHANGED <<copy, cap, issued, devheld, held>>

\* self.attach(path, Directory::device(p, create_file)): keyfs::new does so
attach_device(self, path) ==
    /\ Idle
    /\ self \in held
    /\ Container(self, path) # 0
    /\ CanMkDevice(World)
    /\ Cardinality(DOMAIN nodes) < cap.nodes
    /\ LET p == Container(self, path)
       IN  AttachNew(self, path, DirectoryDevice(World, p, nodes[p].ctor))
    /\ UNCHANGED <<copy, cap, issued, devheld, held>>

\* Directory::get on a directory the embedder reaches; the embedder keeps the
\* Arc it got, or drops it at once
get(self, path, keep) ==
    /\ Idle
    /\ self \in Gettable
    /\ \E r \in {Get(World, self, path)} :
          /\ last' = On(self, path, [NoTreeCall EXCEPT !.op = "get", !.res = r.err, !.out = <<r.n>>])
          /\ held' = IF keep /\ r.err = "ok" THEN held \cup {r.n} ELSE held
    /\ UNCHANGED <<copy, cap, issued, ledger, devs, devheld, inodes, nodes, handles>>

\* the embedder drops an Arc it kept
release(n) ==
    /\ Idle
    /\ n \in held
    /\ held # {n}
    /\ \E g \in {Collect(World, Strong(handles, held \ {n}))} :
          /\ ledger' = g.ledger
          /\ devs' = g.devs
          /\ inodes' = g.inodes
          /\ nodes' = g.nodes
    /\ held' = held \ {n}
    /\ last' = [NoTreeCall EXCEPT !.op = "release", !.at = n]
    /\ UNCHANGED <<copy, cap, issued, devheld, handles>>

\* the cursors readdir is called with
MaxCursor == 5

\* WasiDir::readdir: the entries from the cursor on
readdir(h, cursor) ==
    /\ Idle
    /\ h \in DirHandles
    /\ last' = [NoTreeCall EXCEPT !.op = "readdir", !.at = h.node, !.arg = <<cursor>>,
                                  !.out = ReaddirFrom(World, h.node, cursor)]
    /\ UNCHANGED <<copy, cap, issued, ledger, devs, devheld, inodes, treevars>>

\* the caller takes the result
return ==
    /\ ~Idle
    /\ last' = NoTreeCall
    /\ UNCHANGED <<copy, cap, issued, ledger, devs, devheld, inodes, treevars>>

\* Directory::root(ledger, create_file), held by the embedder
Init ==
    /\ copy = "ledger"
    /\ cap = [ids |-> MaxTreeId, nodes |-> MaxNodes, handles |-> MaxHandles]
    /\ issued = 0
    /\ \E ctor \in BOOLEAN :
          LET m == DirectoryRoot([ledger |-> NewPool, devs |-> << >>, inodes |-> << >>, nodes |-> << >>], ctor)
          IN  /\ ledger = m.w.ledger
              /\ devs = m.w.devs
              /\ inodes = m.w.inodes
              /\ nodes = m.w.nodes
              /\ held = {m.n}
    /\ devheld = {}
    /\ handles = << >>
    /\ last = NoTreeCall

\* every operation of the tree; open_file with a few of its arguments
Next ==
    \/ \E n \in held : node_open_dir(n)
    \/ \E h \in DOMAIN handles, path \in Paths : open_dir(h, path)
    \/ \E h \in DOMAIN handles, path \in Paths : create_dir(h, path)
    \/ \E h \in DOMAIN handles, path \in Paths : remove_dir(h, path)
    \/ \E h \in DOMAIN handles, path \in Paths : unlink_file(h, path)
    \/ \E h \in DOMAIN handles, path \in Paths, ofl \in {{}, {"CREATE"}} :
          open_file(h, path, ofl, TRUE, TRUE, {"APPEND"})
    \/ \E h \in DOMAIN handles : close(h)
    \/ \E self \in held, path \in Paths, p \in DOMAIN nodes : attach_file(self, path, p)
    \/ \E self \in held, path \in Paths : attach_dir(self, path)
    \/ \E self \in held, path \in Paths : attach_device(self, path)
    \/ return

Spec == Init /\ [][Next]_vars

\* the paths SpecGet attaches at: names in the root and in "a", and paths that
\* end in a reserved segment, go through a file or a missing name, or wander
GetAttachPaths ==
    AttachPaths \cup
    { <<"b">>, <<"">>, <<".">>, <<"..">>, <<"a", "">>, <<"a", ".">>, <<"a", "..">>,
      <<"b", "a">>, <<".", "b">>, <<"", "a">>, <<"a", "..", "b">>, <<"a", "", "a">> }

\* the paths Directory::get is called with: up to three segments
GetPaths ==
    {<<s>> : s \in Segs} \cup {<<s, t>> : s, t \in Segs} \cup {<<s, t, u>> : s, t, u \in Segs}

\* the embedder attaches files and directories and calls get
NextGet ==
    \/ \E self \in held, path \in GetAttachPaths :
          \E p \in {self, Container(self, path)} : attach_file(self, path, p)
    \/ \E self \in held, path \in GetAttachPaths : attach_dir(self, path)
    \/ \E self \in Gettable, path \in GetPaths : get(self, path, FALSE)
    \/ return

SpecGet == Init /\ [][NextGet]_vars

\* the paths SpecList calls with
ListPaths == {<<"a">>, <<"b">>, <<"..">>, <<"a", "a">>, <<"a", "..">>}

\* directories and files are made and removed, directories are opened, kept and
\* dropped, and listed
NextList ==
    \/ \E n \in held : node_open_dir(n)
    \/ \E self \in held : attach_file(self, <<"b">>, Container(self, <<"b">>))
    \/ \E h \in DOMAIN handles, path \in {<<"a">>, <<"a", "a">>} : create_dir(h, path)
    \/ \E h \in DOMAIN handles : remove_dir(h, <<"a">>)
    \/ \E h \in DOMAIN handles, path \in ListPaths : open_dir(h, path)
    \/ \E h \in DOMAIN handles, path \in {<<"..">>, <<"a", "..">>} :
          open_file(h, path, {}, TRUE, FALSE, {})
    \/ \E self \in Gettable, path \in ListPaths, keep \in BOOLEAN : get(self, path, keep)
    \/ \E n \in held : release(n)
    \/ \E h \in DOMAIN handles, cursor \in 0..MaxCursor : readdir(h, cursor)
    \/ \E h \in DOMAIN handles : close(h)
    \/ return

SpecList == Init /\ [][NextList]_vars

\* paths with empty and "." segments and with a separator at the end, and the
\* paths they stand for
NormPaths ==
    { <<"a">>, <<"a", "">>, <<".", "a">>, <<"", "a">>,
      <<"a", "a">>, <<"a", "", "a">>, <<"a", ".", "a">>, <<"a", "a", "">> }

\* the handle operations that take a path, called with such paths
NextNorm ==
    \/ \E n \in held : node_open_dir(n)
    \/ \E self \in held, path \in AttachPaths : attach_file(self, path, Container(self, path))
    \/ \E h \in DOMAIN handles, path \in NormPaths : open_dir(h, path)
    \/ \E h \in DOMAIN handles, path \in NormPaths : create_dir(h, path)
    \/ \E h \in DOMAIN handles, path \in NormPaths : remove_dir(h, path)
    \/ \E h \in DOMAIN handles, path \in NormPaths : unlink_file(h, path)
    \/ \E h \in DOMAIN handles : close(h)
    \/ return

SpecNorm == Init /\ [][NextNorm]_vars

\* open_file with every set of OFlags and every mode, on the trees the embedder
\* attaches and open_file creates
NextOpen ==
    \/ \E n \in held : node_open_dir(n)
    \/ \E h \in DOMAIN handles, path \in OpenPaths, ofl \in SUBSET OFlagBits, m \in Modes :
          open_file(h, path, ofl, m.rd, m.wr, m.fl)
    \/ \E h \in DOMAIN handles : close(h)
    \/ \E self \in held, path \in AttachPaths : attach_file(self, path, Container(self, path))
    \/ \E self \in held, path \in AttachPaths : attach_dir(self, path)
    \/ \E self \in held : attach_device(self, <<"a">>)
    \/ return

SpecOpen == Init /\ [][NextOpen]_vars

(***************************************************************************)
(* The keystore overlay: keyfs/src/lib.rs, keyfs/src/generate.rs.          *)
(***************************************************************************)
\* keys generated in a run of SpecKeys
MaxKeys == 2

\* the names Uuid::new_v4() returns, in the order it returns them: a uuid is
\* taken to be new each time
Uuids == <<"0001", "0002", "0003">>

KeyFiles == {"share", "sign", "verify"}

\* the tags of keyfs/src/lib.rs, b"\x00\x00\x00\x00" to b"\x00\x00\x00\x09"
RS256 == <<0, 0, 0, 0>>

RS384 == <<0, 0, 0, 1>>

RS512 == <<0, 0, 0, 2>>

PS256 == <<0, 0, 0, 3>>

PS384 == <<0, 0, 0, 4>>

PS512 == <<0, 0, 0, 5>>

ES256K == <<0, 0, 0, 6>>

ES256 == <<0, 0, 0, 7>>

ES384 == <<0, 0, 0, 8>>

ES512 == <<0, 0, 0, 9>>

\* the tags the match of write_vectored has an arm for: ES512 has none
Recognized == {RS256, RS384, RS512, PS256, PS384, PS512, ES256K, ES256, ES384}

IsRsa(tag) == tag \in {RS256, RS384, RS512, PS256, PS384, PS512}

\* `bufs.iter().map(|x| x.len()).sum()` of buffers given by their lengths
RECURSIVE Capacity(_)
Capacity(sizes) == IF sizes = << >> THEN 0 ELSE Head(sizes) + Capacity(Tail(sizes))

\* a key: the algorithm of its tag, and which key pair it is of; the pair
\* generate makes with the k-th uuid is pair k
KeyOf(tag, pair) == [alg |-> tag, pair |-> pair]

\* the bytes of a public key as Encoder::encode writes them after the tag:
\* an uncompressed point of the curve, or the lengths and bytes of e = 65537
\* and of the modulus of 2048, 3072 or 4096 bits
PublicLen(tag) ==
    CASE tag \in {ES256K, ES256} -> 65
      [] tag = ES384 -> 97
      [] tag \in {RS256, PS256} -> 4 + 3 + 4 + 256
      [] tag \in {RS384, PS384} -> 4 + 3 + 4 + 384
      [] OTHER -> 4 + 3 + 4 + 512

\* the content of share: len bytes, the tag first, then the public key
Payload(len, key) == [len |-> len, tag |-> key.alg, pair |-> key.pair]

\* the buffers written to generate in SpecKeys: a tag with a match arm, ES512
\* that has none, and a buffer that is not 4 bytes long
Tags == { <<ES256>>, <<ES512>>, << <<0, 0, 7>> >> }

\* Generate::new, Trust::new, Share::new, Sign::new, Verify::new
PseudoRec(kind, parent) ==
    [kind |-> kind, parent |-> parent, map |-> << >>, data |-> << >>, ctor |-> FALSE,
     create |-> 0, access |-> 0, modify |-> 0]

NewPseudo(w, kind, parent) == MkNode(w, w.inodes[parent].dev, PseudoRec(kind, parent))

\* Verify::new(d, public), Share::new(d, shared), Sign::new(d, secret)
NewKeyFile(w, kind, parent, data) ==
    MkNode(w, w.inodes[parent].dev, [PseudoRec(kind, parent) EXCEPT !.data = data])

\* a key directory takes four inodes of the overlay's device
CanAddKey(w, d) ==
    /\ issued < MaxKeys
    /\ issued < Len(Uuids)
    /\ Cardinality(LedgerCandidates(w.devs[d])) >= 4
    /\ Cardinality(DOMAIN w.nodes) + 4 <= cap.nodes

\* d.attach(kind, f): f is the [w, n] of the node just made
AttachMade(f, d, kind) == Attach(f.w, d, <<kind>>, f.n)

\* d.attach(kind, Kind::new(d.clone(), data)).await? after the steps that left r
AddKeyFile(r, d, kind, data) ==
    IF r.err # "ok" THEN r ELSE AttachMade(NewKeyFile(r.w, kind, d, data), d, kind)

\* parent.attach(&uuid.to_string(), d).await? after the steps that left r
AttachKeyDir(r, parent, uuid, d) ==
    IF r.err # "ok" THEN r ELSE Attach(r.w, parent, <<uuid>>, d)

\* Ok(uuid), or the error of the step that failed
AddResult(r, uuid) == [err |-> r.err, w |-> r.w, uuid |-> uuid]

\* the key directory d, a [w, n], is filled and attached: [err, w, uuid]
AddKey(d, parent, uuid, key) ==
    AddResult(
        AttachKeyDir(
            AddKeyFile(
                AddKeyFile(
                    AddKeyFile([err |-> "ok", w |-> d.w], d.n, "verify", key),
                    d.n, "share", Payload(4 + PublicLen(key.alg), key)),
                d.n, "sign", key),
            parent, uuid, d.n),
        uuid)

\* Generate::add::<T, ..> for the type of the tag: [err, w, uuid]
GenerateAdd(w, g, tag) ==
    LET parent == w.nodes[g].parent
    IN  IF parent = 0 \/ ~IsDir(w, parent) THEN [err |-> "io", w |-> w, uuid |-> ""]
        ELSE AddKey(DirectoryNew(w, parent, FALSE), parent, Uuids[issued + 1],
                    KeyOf(tag, issued + 1))

\* the uuid is not pushed
PushUuidNot(a, g) == a

\* self.uuids.write().await.push(uuid) after add() returned a
PushUuid(a, g) ==
    IF a.err # "ok" THEN a ELSE [a EXCEPT !.w.nodes[g].data = Append(@, a.uuid)]

\* the write is refused before a key is made
Refused(w, err) == [err |-> err, w |-> w, uuid |-> ""]

\* OpenGenerate::write_vectored: [err, w, uuid]
GenerateWrite(w, g, bufs) ==
    IF Len(bufs) # 1 \/ Len(bufs[1]) # 4 THEN Refused(w, "inval")
    ELSE IF bufs[1] \notin Recognized THEN Refused(w, "ilseq")
    ELSE PushUuid(GenerateAdd(w, g, bufs[1]), g)

\* the call made of a factory's handle h: the overlay, the uuid made or
\* read, the arguments and what was returned
FactoryCall(op, h, uuid, arg, res, out) ==
    [Call(op, nodes[h.node].parent, uuid, {}, FALSE, FALSE, {}, res)
        EXCEPT !.at = h.node, !.arg = <<h>> \o arg, !.out = out]

\* WasiFile::write_vectored on a handle of generate
generate_write(h, bufs) ==
    /\ Idle
    /\ h \in DOMAIN handles
    /\ nodes[h.node].kind = "generate"
    /\ (Len(bufs) = 1 /\ bufs[1] \in Recognized) => CanAddKey(World, inodes[h.node].dev)
    /\ \E r \in {GenerateWrite(World, h.node, bufs)} :
          /\ Commit(r.w, handles)
          /\ issued' = IF r.uuid # "" THEN issued + 1 ELSE issued
          /\ last' = FactoryCall("generate_write", h, r.uuid, <<bufs>>, r.err,
                                 IF r.err = "ok" THEN <<4>> ELSE << >>)
    /\ UNCHANGED <<copy, cap, devheld, held>>

\* the paths the guest of a keystore calls with
KeyPaths ==
    {<<"generate">>} \cup {<<Uuids[k]>> : k \in 1..MaxKeys}
        \cup {<<Uuids[k], f>> : k \in 1..MaxKeys, f \in KeyFiles}

\* read and write of the roles: generate and sign, share, verify
KeyModes ==
    { [rd |-> TRUE,  wr |-> TRUE],
      [rd |-> TRUE,  wr |-> FALSE],
      [rd |-> FALSE, wr |-> TRUE] }

\* test::root: Directory::root(ledger, None) with generate and trust
\* attached; the run is bounded by c
KeysTree(c) ==
    /\ copy = "ledger"
    /\ cap = c
    /\ issued = 0
    /\ \E k \in {DirectoryRoot([ledger |-> NewPool, devs |-> << >>, inodes |-> << >>, nodes |-> << >>], FALSE)} :
       \E g \in {NewPseudo(k.w, "generate", k.n)} :
       \E a1 \in {Attach(g.w, k.n, <<"generate">>, g.n)} :
       \E t \in {NewPseudo(a1.w, "trust", k.n)} :
       \E a2 \in {Attach(t.w, k.n, <<"trust">>, t.n)} :
          /\ ledger = a2.w.ledger
          /\ devs = a2.w.devs
          /\ inodes = a2.w.inodes
          /\ nodes = a2.w.nodes
          /\ held = {k.n}
    /\ devheld = {}
    /\ handles = << >>

KeysStart(c) == KeysTree(c) /\ last = NoTreeCall

\* the guest may have nh handles open and generate or trust MaxKeys keys
KeysInit(nh) == KeysStart([ids |-> 3 + 4 * MaxKeys, nodes |-> 3 + 4 * MaxKeys, handles |-> nh])

InitKeys == KeysInit(MaxHandles)

NextKeys ==
    \/ \E n \in held : node_open_dir(n)
    \/ \E h \in DOMAIN handles, path \in KeyPaths, m \in KeyModes :
          open_file(h, path, {}, m.rd, m.wr, {})
    \/ \E h \in DOMAIN handles, tag \in Tags : generate_write(h, tag)
    \/ \E h \in DOMAIN handles, path \in KeyPaths : remove_dir(h, path)
    \/ \E h \in DOMAIN handles, path \in KeyPaths : unlink_file(h, path)
    \/ \E h \in DOMAIN handles : close(h)
    \/ return

SpecKeys == InitKeys /\ [][NextKeys]_vars

(***************************************************************************)
(* The open regular file: file/src/lib.rs (OpenFile).  A content is a      *)
(* sequence of bytes; a call that reads takes the sizes of its buffers and *)
(* returns the bytes put in them.                                          *)
(***************************************************************************)
\* contents and cursors the model goes up to
MaxLen == 3

\* the loop of read_vectored and read_vectored_at from position pos: [err, data, pos].
\* `content.len() - pos` with pos past the end overflows, and the slice
\* content[pos..] that follows is out of range: the call panics
RECURSIVE ReadBufs(_, _, _)
ReadBufs(content, pos, sizes) ==
    IF sizes = << >> THEN [err |-> "ok", data |-> << >>, pos |-> pos]
    ELSE IF pos > Len(content) THEN [err |-> "panic", data |-> << >>, pos |-> pos]
    ELSE [ReadBufs(content, pos + Min({Head(sizes), Len(content) - pos}), Tail(sizes))
             EXCEPT !.data = SubSeq(content, pos + 1, pos + Min({Head(sizes), Len(content) - pos})) \o @]

\* the buffer goes to the start of the content
WriteAtStart(content, pos, buf) ==
    [i \in 1..(IF Len(buf) > Len(content) THEN Len(buf) ELSE Len(content)) |->
        IF i <= Len(buf) THEN buf[i] ELSE content[i]]

\* the content grows by bytes of 1
WriteAtFill(content, pos, buf) ==
    [i \in 1..(IF pos + Len(buf) > Len(content) THEN pos + Len(buf) ELSE Len(content)) |->
        IF i > pos /\ i <= pos + Len(buf) THEN buf[i - pos]
        ELSE IF i <= Len(content) THEN content[i] ELSE 1]

\* the cursor, with APPEND too
WritePosCursor(content, pos, append) == pos

\* content.resize(pos + buf.len(), 0) if that is longer, then the copy of buf at pos
WriteAt(content, pos, buf) ==
    [i \in 1..(IF pos + Len(buf) > Len(content) THEN pos + Len(buf) ELSE Len(content)) |->
        IF i > pos /\ i <= pos + Len(buf) THEN buf[i - pos]
        ELSE IF i <= Len(content) THEN content[i] ELSE 0]

\* where write_vectored puts the next buffer: at the end with APPEND, else at
\* the cursor
WritePos(content, pos, append) == IF append THEN Len(content) ELSE pos

\* the loop of write_vectored (append: the handle has APPEND) and of
\* write_vectored_at (append FALSE, pos the offset): [content, pos]
RECURSIVE WriteBufs(_, _, _, _)
WriteBufs(content, pos, bufs, append) ==
    IF bufs = << >> THEN [content |-> content, pos |-> pos]
    ELSE WriteBufs(WriteAt(content, WritePos(content, pos, append), Head(bufs)),
                   IF append THEN pos ELSE pos + Len(Head(bufs)),
                   Tail(bufs), append)

RECURSIVE TotalLen(_)
TotalLen(bufs) == IF bufs = << >> THEN 0 ELSE Len(Head(bufs)) + TotalLen(Tail(bufs))

\* the handles of regular files
FileHandles == {h \in DOMAIN handles : h.api = "file" /\ nodes[h.node].kind = "file"}

\* a call on file handle h with arguments arg returned res and out
FileCall(op, h, arg, res, out) ==
    [NoTreeCall EXCEPT !.op = op, !.at = h.node, !.arg = <<h>> \o arg, !.res = res, !.out = out]

\* the handle's cursor is now pos
Moved(h, pos) == HAdd(HDel(handles, h), [h EXCEPT !.pos = pos])

\* the buffers calls write: one or two, also empty ones, and none
WriteInputs ==
    { << >>, << <<1>> >>, << <<1, 2>> >>, << <<1>>, <<2>> >>, << << >>, <<2>> >> }

\* the sizes of the buffers calls read into
ReadInputs == { << >>, <<1>>, <<3>>, <<1, 1>>, <<0, 2>> }

\* OpenFile::write_vectored
write_vectored(h, bufs) ==
    /\ Idle
    /\ h \in FileHandles
    /\ \E r \in {WriteBufs(nodes[h.node].data, h.pos, bufs, "APPEND" \in h.fl)} :
          IF ~h.wr
          THEN /\ last' = FileCall("write_vectored", h, <<bufs>>, "io", << >>)
               /\ UNCHANGED <<ledger, devs, inodes, nodes, handles>>
          ELSE /\ Len(r.content) <= MaxLen
               /\ Commit([World EXCEPT !.nodes[h.node].data = r.content], Moved(h, r.pos))
               /\ last' = FileCall("write_vectored", h, <<bufs>>, "ok", <<TotalLen(bufs)>>)
    /\ UNCHANGED <<copy, cap, issued, devheld, held>>

\* OpenFile::write_vectored_at
write_vectored_at(h, bufs, offset) ==
    /\ Idle
    /\ h \in FileHandles
    /\ \E r \in {WriteBufs(nodes[h.node].data, offset, bufs, FALSE)} :
          IF ~h.wr
          THEN /\ last' = FileCall("write_vectored_at", h, <<bufs, offset>>, "io", << >>)
               /\ UNCHANGED <<ledger, devs, inodes, nodes, handles>>
          ELSE /\ Len(r.content) <= MaxLen
               /\ Commit([World EXCEPT !.nodes[h.node].data = r.content], handles)
               /\ last' = FileCall("write_vectored_at", h, <<bufs, offset>>, "ok", <<TotalLen(bufs)>>)
    /\ UNCHANGED <<copy, cap, issued, devheld, held>>

\* OpenFile::read_vectored
read_vectored(h, sizes) ==
    /\ Idle
    /\ h \in FileHandles
    /\ \E r \in {ReadBufs(nodes[h.node].data, h.pos, sizes)} :
          IF ~h.rd
          THEN /\ last' = FileCall("read_vectored", h, <<sizes>>, "io", << >>)
               /\ UNCHANGED handles
          ELSE /\ handles' = IF r.err = "ok" THEN Moved(h, r.pos) ELSE handles
               /\ last' = FileCall("read_vectored", h, <<sizes>>, r.err, <<Len(r.data), r.data>>)
    /\ UNCHANGED <<copy, cap, issued, ledger, devs, devheld, inodes, nodes, held>>

\* OpenFile::read_vectored_at
read_vectored_at(h, sizes, offset) ==
    /\ Idle
    /\ h \in FileHandles
    /\ \E r \in {ReadBufs(nodes[h.node].data, offset, sizes)} :
          last' = IF ~h.rd THEN FileCall("read_vectored_at", h, <<sizes, offset>>, "io", << >>)
                  ELSE FileCall("read_vectored_at", h, <<sizes, offset>>, r.err, <<Len(r.data), r.data>>)
    /\ UNCHANGED <<copy, cap, issued, ledger, devs, devheld, inodes, treevars>>

\* OpenFile::peek into a buffer of the given size
peek(h, size) ==
    /\ Idle
    /\ h \in FileHandles
    /\ \E r \in {ReadBufs(nodes[h.node].data, h.pos, <<size>>)} :
          last' = IF ~h.rd THEN FileCall("peek", h, <<size>>, "io", << >>)
                  ELSE FileCall("peek", h, <<size>>, r.err, <<Len(r.data), r.data>>)
    /\ UNCHANGED <<copy, cap, issued, ledger, devs, devheld, inodes, treevars>>

\* OpenFile::seek: whence is Start, Current or End; the sum below 0 is an
\* invalid argument
seek(h, whence, off) ==
    /\ Idle
    /\ h \in FileHandles
    /\ whence = "Start" => off >= 0
    /\ \E to \in {off + (CASE whence = "Start" -> 0
                           [] whence = "Current" -> h.pos
                           [] whence = "End" -> Len(nodes[h.node].data))} :
          IF to < 0
          THEN /\ last' = FileCall("seek", h, <<whence, off>>, "inval", << >>)
               /\ UNCHANGED handles
          ELSE /\ to <= MaxLen
               /\ handles' = Moved(h, to)
               /\ last' = FileCall("seek", h, <<whence, off>>, "ok", <<to>>)
    /\ UNCHANGED <<copy, cap, issued, ledger, devs, devheld, inodes, nodes, held>>

\* the modes SpecFile opens files in: a reader, a writer, a writer with APPEND
FileModes ==
    { [rd |-> TRUE,  wr |-> FALSE, fl |-> {}],
      [rd |-> TRUE,  wr |-> TRUE,  fl |-> {}],
      [rd |-> FALSE, wr |-> TRUE,  fl |-> {"APPEND"}] }

\* Directory::root(ledger, Some(File::new)), held by the embedder
InitFile ==
    /\ copy = "ledger"
    /\ cap = [ids |-> MaxTreeId, nodes |-> MaxNodes, handles |-> MaxHandles + 1]
    /\ issued = 0
    /\ \E m \in {DirectoryRoot([ledger |-> NewPool, devs |-> << >>, inodes |-> << >>, nodes |-> << >>], TRUE)} :
          /\ ledger = m.w.ledger
          /\ devs = m.w.devs
          /\ inodes = m.w.inodes
          /\ nodes = m.w.nodes
          /\ held = {m.n}
    /\ devheld = {}
    /\ handles = << >>
    /\ last = NoTreeCall

\* a file is made and opened, written, read and sought in
NextFile ==
    \/ \E n \in held : node_open_dir(n)
    \/ \E h \in DOMAIN handles, ofl \in {{}, {"CREATE"}}, m \in FileModes :
          open_file(h, <<"a">>, ofl, m.rd, m.wr, m.fl)
    \/ \E h \in DOMAIN handles, bufs \in WriteInputs : write_vectored(h, bufs)
    \/ \E h \in DOMAIN handles, bufs \in WriteInputs, offset \in 0..MaxLen :
          write_vectored_at(h, bufs, offset)
    \/ \E h \in DOMAIN handles, sizes \in ReadInputs : read_vectored(h, sizes)
    \/ \E h \in DOMAIN handles, sizes \in ReadInputs, offset \in 0..MaxLen :
          read_vectored_at(h, sizes, offset)
    \/ \E h \in DOMAIN handles, size \in {0, 1, 3} : peek(h, size)
    \/ \E h \in DOMAIN handles, whence \in {"Start", "Current", "End"}, off \in {-1, 0, 2} :
          seek(h, whence, off)
    \/ \E h \in DOMAIN handles : close(h)
    \/ return

SpecFile == InitFile /\ [][NextFile]_vars

(***************************************************************************)
(* set_times.  A time is a number, 0 the time a node was made at; an       *)
(* Option<SystemTimeSpec> is << >> for None and <<t>> for a time t, given  *)
(* as Absolute(t) or as SymbolicNow when the clock reads t.                *)
(***************************************************************************)
\* the times calls ask for: none, and one that no node was made at
TimeArgs == { << >>, <<1>> }

\* a given access time is taken for the modify time as well
DataSetTimesBoth(rec, atime, mtime) ==
    [rec EXCEPT !.access = IF atime = << >> THEN @ ELSE atime[1],
                !.modify = IF mtime = << >> THEN (IF atime = << >> THEN @ ELSE atime[1])
                           ELSE mtime[1]]

\* Data::set_times, the times asked for being << >> or <<t>>
DataSetTimes(rec, atime, mtime) ==
    [rec EXCEPT !.access = IF atime = << >> THEN @ ELSE atime[1],
                !.modify = IF mtime = << >> THEN @ ELSE mtime[1]]

\* `file.set_times(atime, mtime)` on what child.open_file(path, false, false,
\* false, flags) returned (r): a directory's handle sets the times, a
\* regular file's is not open for writing: [err, w, n]
FileSetTimes(w, n, r, atime, mtime) ==
    IF r.err # "ok" THEN [err |-> r.err, w |-> w, n |-> n]
    ELSE IF IsDir(w, n)
    THEN [err |-> "ok", w |-> [w EXCEPT !.nodes[n] = DataSetTimes(@, atime, mtime)], n |-> n]
    ELSE [err |-> IF r.h.wr THEN "ok" ELSE "io",
          w |-> IF r.h.wr THEN [w EXCEPT !.nodes[n] = DataSetTimes(@, atime, mtime)] ELSE w,
          n |-> n]

\* OpenDir::set_times at the last segment: [err, w, n], n the entry resolved
SetTimesAt(w, d, name, atime, mtime) ==
    CASE name \in {".", ""} ->
            [err |-> "ok", w |-> [w EXCEPT !.nodes[d] = DataSetTimes(@, atime, mtime)], n |-> d]
      [] name = ".." ->
            [err |-> "ok", w |-> [w EXCEPT !.nodes[Prev(w, d)] = DataSetTimes(@, atime, mtime)],
             n |-> Prev(w, d)]
      [] OTHER ->
            IF name \notin DOMAIN w.nodes[d].map THEN [err |-> "noent", w |-> w, n |-> 0]
            ELSE FileSetTimes(w, w.nodes[d].map[name],
                              NodeOpenFile(w, w.nodes[d].map[name], FALSE, FALSE, FALSE, {}),
                              atime, mtime)

\* WasiDir::set_times
set_times(h, path, atime, mtime) ==
    /\ Idle
    /\ h \in DirHandles
    /\ \E d \in {Descend(World, h.node, path)} :
          IF d.err # "ok"
          THEN /\ last' = On(h.node, path, [DirOp("set_times", d) EXCEPT !.arg = <<atime, mtime>>])
               /\ UNCHANGED <<ledger, devs, inodes, nodes, handles>>
          ELSE \E r \in {SetTimesAt(World, d.dir, d.name, atime, mtime)} :
                  /\ Commit(r.w, handles)
                  /\ last' = On(h.node, path,
                                [DirOp("set_times", d) EXCEPT !.res = r.err, !.arg = <<atime, mtime>>,
                                                              !.out = <<r.n>>])
    /\ UNCHANGED <<copy, cap, issued, devheld, held>>

\* the paths set_times is called with: a directory, a file, the reserved
\* segments, a name that is missing, and paths of two segments
TimesPaths ==
    { <<"a">>, <<"b">>, <<".">>, <<"..">>, <<"">>, <<"a", "..">>, <<"a", "b">>, <<"b", "a">> }

\* a directory "a" and files "b" are made, and times are set
NextTimes ==
    \/ \E n \in held : node_open_dir(n)
    \/ \E h \in DOMAIN handles : create_dir(h, <<"a">>)
    \/ \E h \in DOMAIN handles : open_dir(h, <<"a">>)
    \/ \E h \in DOMAIN handles : open_file(h, <<"b">>, {"CREATE"}, TRUE, TRUE, {})
    \/ \E h \in DOMAIN handles, path \in TimesPaths, atime \in TimeArgs, mtime \in TimeArgs :
          set_times(h, path, atime, mtime)
    \/ \E h \in DOMAIN handles : close(h)
    \/ return

SpecTimes == InitFile /\ [][NextTimes]_vars

(***************************************************************************)
(* Filestat, of a handle and of a path.                                    *)
(***************************************************************************)
\* the size a directory's file-style handle reports: `ilock.content.len()`,
\* the number of entries of its map
DirSize(w, n) == Cardinality(DOMAIN w.nodes[n].map)

\* get_filestat of a handle on node n: api "dir" is WasiDir::get_filestat of
\* OpenDir, "file" the WasiFile::get_filestat of the node's handle type.  No
\* Arc<Inode> is ever cloned, so strong_count is 1
Filestat(w, n, api) ==
    [device_id |-> DevIdOf(w, n),
     inode     |-> w.inodes[n].id,
     filetype  |-> IF api = "dir" THEN "Directory" ELSE FileType(w, n),
     nlink     |-> IF api = "dir" THEN 2 ELSE 1,
     size      |-> CASE api = "dir" -> 0
                     [] w.nodes[n].kind = "dir" -> DirSize(w, n)
                     [] w.nodes[n].kind = "file" -> Len(w.nodes[n].data)
                     [] w.nodes[n].kind = "share" -> w.nodes[n].data.len
                     [] OTHER -> 0,
     atim      |-> w.nodes[n].access,
     mtim      |-> w.nodes[n].modify,
     ctim      |-> w.nodes[n].create]

NoStat == [device_id |-> 0, inode |-> 0, filetype |-> "none", nlink |-> 0, size |-> 0,
           atim |-> 0, mtim |-> 0, ctim |-> 0]

\* `file.get_filestat()` on what child.open_file(path, false, false, false,
\* flags) returned (r): [err, st]
OpenedFilestat(w, n, r) ==
    IF r.err # "ok" THEN [err |-> r.err, st |-> NoStat]
    ELSE [err |-> "ok", st |-> Filestat(w, n, "file")]

\* OpenDir::get_path_filestat at the last segment: [err, st]
GetPathFilestatAt(w, d, name) ==
    CASE name \in {".", ""} -> [err |-> "ok", st |-> Filestat(w, d, "dir")]
      [] name = ".." -> [err |-> "ok", st |-> Filestat(w, Prev(w, d), "dir")]
      [] OTHER ->
            IF name \notin DOMAIN w.nodes[d].map THEN [err |-> "noent", st |-> NoStat]
            ELSE OpenedFilestat(w, w.nodes[d].map[name],
                                NodeOpenFile(w, w.nodes[d].map[name], FALSE, FALSE, FALSE, {}))

\* get_filestat of WasiDir (on a handle open_dir gave) and of WasiFile
get_filestat(h) ==
    /\ Idle
    /\ h \in DOMAIN handles
    /\ last' = [NoTreeCall EXCEPT !.op = "get_filestat", !.at = h.node, !.arg = <<h>>,
                                  !.out = <<Filestat(World, h.node, h.api)>>]
    /\ UNCHANGED <<copy, cap, issued, ledger, devs, devheld, inodes, treevars>>

\* WasiDir::get_path_filestat
get_path_filestat(h, path) ==
    /\ Idle
    /\ h \in DirHandles
    /\ \E d \in {Descend(World, h.node, path)} :
          IF d.err # "ok"
          THEN last' = On(h.node, path, DirOp("get_path_filestat", d))
          ELSE \E r \in {GetPathFilestatAt(World, d.dir, d.name)} :
                  last' = On(h.node, path,
                             [DirOp("get_path_filestat", d) EXCEPT !.res = r.err, !.out = <<r.st>>])
    /\ UNCHANGED <<copy, cap, issued, ledger, devs, devheld, inodes, treevars>>

\* the paths get_path_filestat is called with
StatPaths ==
    { <<"a">>, <<"b">>, <<".">>, <<"..">>, <<"">>, <<"a", "..">>, <<"a", "a">>, <<"b", "a">> }

\* directories "a" and "a/a" and a file "b" are made, written and opened, and
\* their stats are taken by handle and by path
NextStat ==
    \/ \E n \in held : node_open_dir(n)
    \/ \E h \in DOMAIN handles, path \in {<<"a">>, <<"a", "a">>} : create_dir(h, path)
    \/ \E h \in DOMAIN handles : open_dir(h, <<"a">>)
    \/ \E h \in DOMAIN handles, path \in {<<"a">>, <<"b">>}, ofl \in {{}, {"CREATE"}} :
          open_file(h, path, ofl, TRUE, TRUE, {})
    \/ \E h \in DOMAIN handles : write_vectored(h, << <<1, 2>> >>)
    \/ \E h \in DOMAIN handles : get_filestat(h)
    \/ \E h \in DOMAIN handles, path \in StatPaths : get_path_filestat(h, path)
    \/ \E h \in DOMAIN handles : readdir(h, 0)
    \/ \E h \in DOMAIN handles : close(h)
    \/ return

SpecStat == InitFile /\ [][NextStat]_vars

(***************************************************************************)
(* Data::set_times with its SystemTimeSpec arguments.  An argument is      *)
(* None, Absolute(t) or SymbolicNow; the clock is read once, when either   *)
(* asks for SymbolicNow, and reads `now`.                                  *)
(***************************************************************************)
\* the instants of the clock
MaxInstant == 2

Instants == 0..MaxInstant

TimeSpecs ==
    {[spec |-> "None", t |-> 0], [spec |-> "SymbolicNow", t |-> 0]}
        \cup {[spec |-> "Absolute", t |-> t] : t \in Instants}

\* `SymbolicNow => now.unwrap()`, `Absolute(time) => time.into_std()`
TimeAsked(ts, now) ==
    CASE ts.spec = "None" -> << >>
      [] ts.spec = "SymbolicNow" -> <<now>>
      [] OTHER -> <<ts.t>>

\* data.set_times(atime, mtime) on the data of node n, the clock reading now
data_set_times(n, atime, mtime, now) ==
    /\ Idle
    /\ n \in DOMAIN nodes
    /\ nodes' = [nodes EXCEPT ![n] = DataSetTimes(@, TimeAsked(atime, now), TimeAsked(mtime, now))]
    /\ last' = [NoTreeCall EXCEPT !.op = "data_set_times", !.at = n, !.arg = <<atime, mtime, now>>]
    /\ UNCHANGED <<copy, cap, issued, ledger, devs, devheld, inodes, handles, held>>

\* a Data made at any instant: `create: now, access: now, modify: now`
InitData ==
    /\ copy = "ledger"
    /\ cap = [ids |-> MaxTreeId, nodes |-> MaxNodes, handles |-> MaxHandles]
    /\ issued = 0
    /\ \E m \in {DirectoryRoot([ledger |-> NewPool, devs |-> << >>, inodes |-> << >>, nodes |-> << >>], TRUE)} :
          /\ ledger = m.w.ledger
          /\ devs = m.w.devs
          /\ inodes = m.w.inodes
          /\ \E t \in Instants :
                nodes = [m.w.nodes EXCEPT ![m.n].create = t, ![m.n].access = t, ![m.n].modify = t]
          /\ held = {m.n}
    /\ devheld = {}
    /\ handles = << >>
    /\ last = NoTreeCall

NextData ==
    \/ \E n \in held, atime \in TimeSpecs, mtime \in TimeSpecs, now \in Instants :
          data_set_times(n, atime, mtime, now)
    \/ return

SpecData == InitData /\ [][NextData]_vars

(***************************************************************************)
(* trust, and the reads of the two factories: keyfs/src/trust.rs,          *)
(* keyfs/src/generate.rs.                                                  *)
(*                                                                         *)
(* What is written to trust is given by the lengths of its buffers, the    *)
(* first four bytes of their concatenation (<< >> when there are fewer),   *)
(* and what the bytes after those are: the encoding of the public key of a *)
(* pair ("key"), of an RSA key of fewer than 2048 bits ("weak"), or no     *)
(* encoding of a key ("malformed").                                        *)
(***************************************************************************)
\* uuid.to_string().as_bytes().len()
UuidLen == 36

\* `4..=4096` in OpenTrust::write_vectored
TrustMin == 4

TrustMax == 4096

\* the pair of a key that no generate of this keystore made
Foreign == 9

TrustInput(lens, tag, body) == [lens |-> lens, tag |-> tag, body |-> body, pair |-> Foreign]

\* every key passes
DecodeAny(in) == "ok"

\* T::decode(&bytes[4..]): RsaPublicKey::decode for the RSA types, with its
\* check of the size, from_sec1_bytes for the curves
Decode(in) ==
    CASE in.body = "key" -> "ok"
      [] in.body = "weak" /\ IsRsa(in.tag) -> "perm"
      [] OTHER -> "ilseq"

\* the directory d, a [w, n], gets verify and share and is attached: [err, w, uuid]
AddTrusted(d, parent, uuid, key, len) ==
    AddResult(
        AttachKeyDir(
            AddKeyFile(
                AddKeyFile([err |-> "ok", w |-> d.w], d.n, "verify", key),
                d.n, "share", Payload(len, key)),
            parent, uuid, d.n),
        uuid)

\* Trust::add: [err, w, uuid]
TrustAdd(w, t, in) ==
    LET parent == w.nodes[t].parent
    IN  IF parent = 0 \/ ~IsDir(w, parent) THEN Refused(w, "io")
        ELSE IF Decode(in) # "ok" THEN Refused(w, Decode(in))
        ELSE AddTrusted(DirectoryNew(w, parent, FALSE), parent, Uuids[issued + 1],
                        KeyOf(in.tag, in.pair), Capacity(in.lens))

\* OpenTrust::write_vectored: [err, w, uuid]
TrustWrite(w, t, in) ==
    IF Capacity(in.lens) < TrustMin \/ Capacity(in.lens) > TrustMax THEN Refused(w, "inval")
    ELSE IF in.tag \notin Recognized THEN Refused(w, "ilseq")
    ELSE PushUuid(TrustAdd(w, t, in), t)

\* WasiFile::write_vectored on a handle of trust
trust_write(h, in) ==
    /\ Idle
    /\ h \in DOMAIN handles
    /\ nodes[h.node].kind = "trust"
    /\ in.body = "key" => CanAddKey(World, inodes[h.node].dev)
    /\ \E r \in {TrustWrite(World, h.node, in)} :
          /\ Commit(r.w, handles)
          /\ issued' = IF r.uuid # "" THEN issued + 1 ELSE issued
          /\ last' = FactoryCall("trust_write", h, r.uuid, <<in>>, r.err,
                                 IF r.err = "ok" THEN <<Capacity(in.lens)>> ELSE << >>)
    /\ UNCHANGED <<copy, cap, devheld, held>>

\* a read returns the uuid pushed last and leaves it in the queue
FactoryReadFirst(queue, sizes) ==
    IF queue = << >> THEN [err |-> "wouldblk", queue |-> queue, uuid |-> ""]
    ELSE IF Capacity(sizes) < UuidLen
    THEN [err |-> "toobig", queue |-> queue, uuid |-> ""]
    ELSE [err |-> "ok", queue |-> queue, uuid |-> queue[Len(queue)]]

\* read_vectored of OpenGenerate and OpenTrust on the queue of the node:
\* content.pop(), and content.push(uuid) when the buffers are too small:
\* [err, queue, uuid]
FactoryRead(queue, sizes) ==
    IF queue = << >> THEN [err |-> "wouldblk", queue |-> queue, uuid |-> ""]
    ELSE IF Capacity(sizes) < UuidLen
    THEN [err |-> "toobig", queue |-> Append(SubSeq(queue, 1, Len(queue) - 1), queue[Len(queue)]),
          uuid |-> ""]
    ELSE [err |-> "ok", queue |-> SubSeq(queue, 1, Len(queue) - 1), uuid |-> queue[Len(queue)]]

\* WasiFile::read_vectored on a handle of generate or trust
factory_read(h, sizes) ==
    /\ Idle
    /\ h \in DOMAIN handles
    /\ nodes[h.node].kind \in {"generate", "trust"}
    /\ \E r \in {FactoryRead(nodes[h.node].data, sizes)} :
          /\ nodes' = [nodes EXCEPT ![h.node].data = r.queue]
          /\ last' = FactoryCall("factory_read", h, r.uuid, <<sizes>>, r.err,
                                 IF r.err = "ok" THEN <<UuidLen>> ELSE << >>)
    /\ UNCHANGED <<copy, cap, issued, ledger, devs, devheld, inodes, handles, held>>

\* what is written to generate: each kind of tag, a buffer too short, one too
\* long, two buffers, none
GenerateInputs ==
    { <<ES256>>, <<RS256>>, <<ES512>>, << <<0, 0, 7>> >>, << <<0, 0, 0, 0, 7>> >>,
      << <<0, 0>>, <<0, 7>> >>, << >> }

\* what is written to trust: keys of a curve and of RSA in one and two
\* buffers, of the largest size and one byte more, a tag alone, fewer bytes
\* than a tag, a tag without a match arm, a weak RSA key, bytes that are no key
TrustInputs ==
    { TrustInput(<<4, 65>>, ES256, "key"),
      TrustInput(<<271>>, RS256, "key"),
      TrustInput(<<4096>>, PS512, "malformed"),
      TrustInput(<<4000, 97>>, ES384, "key"),
      TrustInput(<<4>>, ES256, "malformed"),
      TrustInput(<<3>>, << >>, "malformed"),
      TrustInput(<< >>, << >>, "malformed"),
      TrustInput(<<4, 65>>, ES512, "key"),
      TrustInput(<<4, 139>>, RS256, "weak"),
      TrustInput(<<4, 139>>, ES256, "weak"),
      TrustInput(<<69>>, ES256, "malformed") }

\* the sizes of the buffers the factories are read into
UuidReads == { <<36>>, <<20, 16>>, <<64>>, <<35>>, <<20, 15>>, << >> }

FactoryPaths == { <<"generate">>, <<"trust">> }

\* keys are generated and trusted, and their uuids are read
NextFactory ==
    \/ \E n \in held : node_open_dir(n)
    \/ \E h \in DOMAIN handles, path \in FactoryPaths : open_file(h, path, {}, TRUE, TRUE, {})
    \/ \E h \in DOMAIN handles, bufs \in GenerateInputs : generate_write(h, bufs)
    \/ \E h \in DOMAIN handles, in \in TrustInputs : trust_write(h, in)
    \/ \E h \in DOMAIN handles, sizes \in UuidReads : factory_read(h, sizes)
    \/ \E h \in DOMAIN handles : close(h)
    \/ return

\* the overlay, and a guest that may hold two handles of a factory beside
\* the directory's
InitFactory == KeysInit(MaxHandles + 1)

SpecFactory == InitFactory /\ [][NextFactory]_vars

\* ---- keyfs: share ----

\* the loop of OpenShare::read_vectored: each buffer takes
\* min(buf.len(), content.len() - total) bytes; the total after the last
RECURSIVE ShareCopied(_, _, _)
ShareCopied(len, sizes, total) ==
    IF sizes = << >> THEN total
    ELSE ShareCopied(len, Tail(sizes),
                     total + (IF Head(sizes) < len - total THEN Head(sizes) ELSE len - total))

\* the payload is cut to what the buffers hold
ShareReadCut(data, sizes) ==
    [err |-> "ok", n |-> ShareCopied(data.len, sizes, 0), payload |-> data]

\* OpenShare::read_vectored on the payload data with buffers of these sizes
ShareRead(data, sizes) ==
    IF data.len > Capacity(sizes) THEN [err |-> "toobig", n |-> 0, payload |-> << >>]
    ELSE [err |-> "ok", n |-> ShareCopied(data.len, sizes, 0), payload |-> data]

share_read(h, sizes) ==
    /\ Idle
    /\ h \in DOMAIN handles
    /\ nodes[h.node].kind = "share"
    /\ \E r \in {ShareRead(nodes[h.node].data, sizes)} :
          last' = FactoryCall("share_read", h, "", <<sizes>>, r.err,
                              IF r.err = "ok" THEN <<r.n, r.payload>> ELSE << >>)
    /\ UNCHANGED <<copy, cap, issued, ledger, devs, devheld, inodes, nodes, handles, held>>

\* buffers for a payload of 69 bytes (a P-256 key) and of 271 (RSA 2048)
ShareReads == { <<69>>, <<64, 5>>, <<68>>, <<60, 8>>, <<271>>, <<300>>, <<200, 71>>, << >> }

SharePaths == FactoryPaths \cup {<<Uuids[k], "share">> : k \in 1..MaxKeys}

ShareKeys == { <<ES256>>, <<RS256>> }

ShareTrusts == { TrustInput(<<4, 65>>, ES256, "key"), TrustInput(<<271>>, RS256, "key") }

NextShare ==
    \/ \E n \in held : node_open_dir(n)
    \/ \E h \in DOMAIN handles, path \in SharePaths, m \in KeyModes :
          open_file(h, path, {}, m.rd, m.wr, {})
    \/ \E h \in DOMAIN handles, bufs \in ShareKeys : generate_write(h, bufs)
    \/ \E h \in DOMAIN handles, in \in ShareTrusts : trust_write(h, in)
    \/ \E h \in DOMAIN handles, sizes \in UuidReads : factory_read(h, sizes)
    \/ \E h \in DOMAIN handles, sizes \in ShareReads : share_read(h, sizes)
    \/ \E h \in DOMAIN handles : close(h)
    \/ return

SpecShare == InitKeys /\ [][NextShare]_vars

\* ---- keyfs: the roles at open ----

RolePaths == FactoryPaths \cup {<<Uuids[k], f>> : k \in 1..MaxKeys, f \in KeyFiles}

RoleOFlags == { {}, {"DIRECTORY"} }

RoleFdFlags == { {}, {"APPEND"}, {"NONBLOCK"} }

NextRoles ==
    \/ \E n \in held : node_open_dir(n)
    \/ \E h \in DOMAIN handles, path \in RolePaths, ofl \in RoleOFlags,
          rd \in BOOLEAN, wr \in BOOLEAN, fl \in RoleFdFlags :
          open_file(h, path, ofl, rd, wr, fl)
    \/ \E h \in DOMAIN handles : generate_write(h, <<ES256>>)
    \/ \E h \in DOMAIN handles : trust_write(h, TrustInput(<<4, 65>>, ES256, "key"))
    \/ \E h \in DOMAIN handles : close(h)
    \/ return

SpecRoles == InitKeys /\ [][NextRoles]_vars

\* ---- keyfs: sign and verify ----

\* the longest message a handle is fed
MaxMsg == 2

\* the bytes of the messages
MsgBytes == {1, 2}

\* u64::MAX, the offset that asks for the signature: the largest offset,
\* at the 31 bits the checker's integers have (offsets are only compared)
U64Max == 2147483647

\* the nonces of sign_digest_with_rng
Nonces == {1, 2}

\* the bytes of the buffers one after the other
RECURSIVE Concat(_)
Concat(bufs) == IF bufs = << >> THEN << >> ELSE Head(bufs) \o Concat(Tail(bufs))

\* the digest starts again with every write
HashUpdateAnew(hash, bufs) == Concat(bufs)

\* for buf in bufs { self.hash.update(buf) }: the digest stands for the
\* bytes it was fed, in order (no two messages share a digest)
HashUpdate(hash, bufs) == hash \o Concat(bufs)

\* the length of a signature: (r, s) of the curve for ECDSA, the modulus
\* length of the generated key for RSA
SigLen(tag) ==
    CASE tag \in {ES256K, ES256} -> 64
      [] tag = ES384 -> 96
      [] tag \in {RS256, PS256} -> 256
      [] tag \in {RS384, PS384} -> 384
      [] OTHER -> 512

\* a signature by the private half of key over the digest hash
Signature(key, hash, nonce) ==
    [alg |-> key.alg, pair |-> key.pair, msg |-> hash, nonce |-> nonce, len |-> SigLen(key.alg)]

\* the digest is not compared
VerifyDigestAnyMsg(key, hash, sig) == sig.alg = key.alg /\ sig.pair = key.pair

\* K::verify_digest(hash, sig)
VerifyDigest(key, hash, sig) ==
    sig.alg = key.alg /\ sig.pair = key.pair /\ sig.msg = hash

\* the handle h with the digest hash, among the handles
Hashed(h, hash) == HAdd(HDel(handles, h), [h EXCEPT !.hash = hash])

\* OpenSign::write_vectored and OpenVerify::write_vectored
hash_write(h, bufs) ==
    /\ Idle
    /\ h \in DOMAIN handles
    /\ nodes[h.node].kind \in {"sign", "verify"}
    /\ Len(HashUpdate(h.hash, bufs)) <= MaxMsg
    /\ handles' = Hashed(h, HashUpdate(h.hash, bufs))
    /\ last' = FactoryCall("hash_write", h, "", <<bufs>>, "ok", <<Len(Concat(bufs))>>)
    /\ UNCHANGED <<copy, cap, issued, ledger, devs, devheld, inodes, nodes, held>>

\* OpenSign::read_vectored_at
SignReadAt(key, hash, sizes, offset, nonce) ==
    IF offset # U64Max THEN [err |-> "inval", out |-> << >>]
    ELSE IF Capacity(sizes) < SigLen(key.alg) THEN [err |-> "toobig", out |-> << >>]
    ELSE [err |-> "ok", out |-> <<Signature(key, hash, nonce)>>]

sign_read_at(h, sizes, offset) ==
    /\ Idle
    /\ h \in DOMAIN handles
    /\ nodes[h.node].kind = "sign"
    /\ \E nonce \in Nonces :
       \E r \in {SignReadAt(nodes[h.node].data, h.hash, sizes, offset, nonce)} :
          last' = FactoryCall("sign_read_at", h, "", <<sizes, offset>>, r.err, r.out)
    /\ UNCHANGED <<copy, cap, issued, ledger, devs, devheld, inodes, nodes, handles, held>>

\* S::from_bytes: a signature of a curve has the length of (r, s); any
\* bytes are a signature of RSA
FromBytes(key, sig) == IsRsa(key.alg) \/ sig.len = SigLen(key.alg)

\* OpenVerify::write_vectored_at: bufs are signatures; the digest of the
\* handle is cloned and stays
VerifyWriteAt(key, hash, bufs, offset) ==
    IF offset # U64Max THEN [err |-> "inval", out |-> << >>]
    ELSE IF Len(bufs) # 1 THEN [err |-> "inval", out |-> << >>]
    ELSE IF ~FromBytes(key, bufs[1]) THEN [err |-> "inval", out |-> << >>]
    ELSE IF VerifyDigest(key, hash, bufs[1]) THEN [err |-> "ok", out |-> <<bufs[1].len>>]
    ELSE [err |-> "ilseq", out |-> << >>]

verify_write_at(h, bufs, offset) ==
    /\ Idle
    /\ h \in DOMAIN handles
    /\ nodes[h.node].kind = "verify"
    /\ \E r \in {VerifyWriteAt(nodes[h.node].data, h.hash, bufs, offset)} :
          last' = FactoryCall("verify_write_at", h, "", <<bufs, offset>>, r.err, r.out)
    /\ UNCHANGED <<copy, cap, issued, ledger, devs, devheld, inodes, nodes, handles, held>>

\* the messages written: one or two buffers of a byte, or none
MsgBufs == {<< >>} \cup {<< <<b>> >> : b \in MsgBytes}
              \cup {<< <<b>>, <<c>> >> : b \in MsgBytes, c \in MsgBytes}

\* buffers for a signature of 64 bytes
SigReads == { <<64>>, <<32, 32>>, <<63>>, <<100>>, << >> }

SigOffsets == {0, 64, U64Max - 1, U64Max}

SignPaths == {<<"generate">>} \cup {<<Uuids[k], "sign">> : k \in 1..MaxKeys}

NextSign ==
    \/ \E n \in held : node_open_dir(n)
    \/ \E h \in DOMAIN handles, path \in SignPaths : open_file(h, path, {}, TRUE, TRUE, {})
    \/ \E h \in DOMAIN handles : generate_write(h, <<ES256>>)
    \/ \E h \in DOMAIN handles, bufs \in MsgBufs : hash_write(h, bufs)
    \/ \E h \in DOMAIN handles, sizes \in SigReads, offset \in SigOffsets :
          sign_read_at(h, sizes, offset)
    \/ \E h \in DOMAIN handles : close(h)
    \/ return

SpecSign == InitFactory /\ [][NextSign]_vars

\* the signatures submitted: by the key generated first over a message, by
\* another key, cut short, two at once, none
SigBufs ==
    {<<Signature(KeyOf(ES256, 1), m, 1)>> : m \in {<< >>, <<1>>, <<2>>, <<1, 2>>}}
       \cup { <<Signature(KeyOf(ES256, 2), <<1>>, 1)>>,
              <<[Signature(KeyOf(ES256, 1), <<1>>, 1) EXCEPT !.len = 63]>>,
              <<Signature(KeyOf(ES256, 1), <<1>>, 1), Signature(KeyOf(ES256, 1), <<1>>, 2)>>,
              << >> }

VerifyPaths == {<<"generate">>, <<Uuids[1], "verify">>}

NextVerify ==
    \/ \E n \in held : node_open_dir(n)
    \/ \E h \in DOMAIN handles, path \in VerifyPaths, m \in KeyModes :
          open_file(h, path, {}, m.rd, m.wr, {})
    \/ \E h \in DOMAIN handles : generate_write(h, <<ES256>>)
    \/ \E h \in DOMAIN handles, bufs \in MsgBufs : hash_write(h, bufs)
    \/ \E h \in DOMAIN handles, bufs \in SigBufs, offset \in SigOffsets :
          verify_write_at(h, bufs, offset)
    \/ \E h \in DOMAIN handles : close(h)
    \/ return

SpecVerify == InitKeys /\ [][NextVerify]_vars

\* ---- keyfs: sign, then verify ----

\* the signatures submitted to verify: by a generated key or by the holder
\* of the trusted key over a message, by no key (a bit flipped), cut short
RoundSigs ==
    {<<Signature(KeyOf(ES256, k), m, 1)>> :
        k \in {1, 2, Foreign}, m \in {<< >>, <<1>>, <<1, 2>>}}
       \cup { <<Signature(KeyOf(ES256, 0), <<1>>, 1)>>,
              <<[Signature(KeyOf(ES256, 1), <<1>>, 1) EXCEPT !.len = 63]>> }

RoundPaths ==
    FactoryPaths \cup {<<Uuids[k], f>> : k \in 1..MaxKeys, f \in {"sign", "verify"}}

RoundMsgs == { << <<1>> >>, << <<2>> >>, << <<1>>, <<2>> >> }

NextRound ==
    \/ \E n \in held : node_open_dir(n)
    \/ \E h \in DOMAIN handles, path \in RoundPaths, m \in KeyModes :
          open_file(h, path, {}, m.rd, m.wr, {})
    \/ \E h \in DOMAIN handles : generate_write(h, <<ES256>>)
    \/ \E h \in DOMAIN handles : trust_write(h, TrustInput(<<4, 65>>, ES256, "key"))
    \/ \E h \in DOMAIN handles, bufs \in RoundMsgs : hash_write(h, bufs)
    \/ \E h \in DOMAIN handles : sign_read_at(h, <<64>>, U64Max)
    \/ \E h \in DOMAIN handles, bufs \in RoundSigs : verify_write_at(h, bufs, U64Max)
    \/ \E h \in DOMAIN handles : close(h)
    \/ return

SpecRound == InitFactory /\ [][NextRound]_vars

\* ---- the calls that change the tree, refused ----

\* the content is resized although the call is refused
FileResizeAnyway(h, content, size) ==
    [err |-> IF h.wr THEN "ok" ELSE "io",
     content |-> [i \in 1..size |-> IF i <= Len(content) THEN content[i] ELSE 0]]

\* OpenFile::set_filestat_size: content.resize(size, 0) on a handle that writes
FileResize(h, content, size) ==
    IF ~h.wr THEN [err |-> "io", content |-> content]
    ELSE [err |-> "ok", content |-> [i \in 1..size |-> IF i <= Len(content) THEN content[i] ELSE 0]]

set_filestat_size(h, size) ==
    /\ Idle
    /\ h \in FileHandles
    /\ \E r \in {FileResize(h, nodes[h.node].data, size)} :
          /\ Commit([World EXCEPT !.nodes[h.node].data = r.content], handles)
          /\ last' = FileCall("set_filestat_size", h, <<size>>, r.err, << >>)
    /\ UNCHANGED <<copy, cap, issued, devheld, held>>

MutPaths == { <<"a">>, <<"b">>, <<"generate">>, <<"trust">> }

\* how the guest opens: to read, to write, truncating with and without the
\* right to write, creating
MutOpens ==
    { [ofl |-> {}, wr |-> FALSE], [ofl |-> {}, wr |-> TRUE],
      [ofl |-> {"TRUNCATE"}, wr |-> FALSE], [ofl |-> {"TRUNCATE"}, wr |-> TRUE],
      [ofl |-> {"CREATE", "EXCLUSIVE"}, wr |-> TRUE] }

MutKeys == { <<ES256>>, << >> }

MutTrusts ==
    { TrustInput(<<4, 65>>, ES256, "key"), TrustInput(<<3>>, ES256, "malformed") }

\* the overlay of the keystore with directories made in it and a file attached
NextMut ==
    \/ \E n \in held : node_open_dir(n)
    \/ \E self \in held : attach_file(self, <<"b">>, self)
    \/ \E h \in DOMAIN handles, path \in {<<"a">>, <<"">>} : create_dir(h, path)
    \/ \E h \in DOMAIN handles, path \in {<<"a">>, <<"b">>} : remove_dir(h, path)
    \/ \E h \in DOMAIN handles, path \in {<<"a">>, <<"b">>} : unlink_file(h, path)
    \/ \E h \in DOMAIN handles, path \in MutPaths, m \in MutOpens :
          open_file(h, path, m.ofl, TRUE, m.wr, {})
    \/ \E h \in DOMAIN handles : write_vectored(h, << <<2>> >>)
    \/ \E h \in DOMAIN handles : set_filestat_size(h, 1)
    \/ \E h \in DOMAIN handles, bufs \in MutKeys : generate_write(h, bufs)
    \/ \E h \in DOMAIN handles, in \in MutTrusts : trust_write(h, in)
    \/ \E h \in DOMAIN handles : close(h)
    \/ return

\* room for one key beside a directory or a file
InitMut == KeysStart([ids |-> 8, nodes |-> 8, handles |-> MaxHandles])

SpecMut == InitMut /\ [][NextMut]_vars

\* ---- tasks that call one directory at the same time ----
\* In the specifications of tasks the variable last holds the calls in
\* flight, one per task: where the task is in its call (pc), the call, the
\* directory and name it is about, the node it made or brought, the result.

\* tasks that run at the same time
MaxTasks == 3

Tasks == 1..MaxTasks

NoTask == [pc |-> "idle", op |-> "none", dir |-> 0, name |-> "", made |-> 0, res |-> ""]

\* no lock is taken
LockedNever(ts, d) == FALSE

\* inode.data.write().await returns when no other task holds the RwLock of d;
\* the guard lives until the call returns
Locked(ts, d) == \E u \in DOMAIN ts : ts[u].dir = d /\ ts[u].pc \in {"locked", "absent"}

\* the world after w with the Arcs in hd and hs, the tasks in ts
Settle(w, hs, hd, ts) ==
    LET g == Collect(w, Strong(hs, hd))
    IN  /\ ledger' = g.ledger
        /\ devs' = g.devs
        /\ inodes' = g.inodes
        /\ nodes' = g.nodes
        /\ handles' = hs
        /\ held' = hd
        /\ last' = ts

\* task t calls create_dir(name), open_file(name, CREATE | EXCLUSIVE) or
\* attach(name, node) on a directory d; the node to attach is made before
\* the call and the task holds its Arc
task_call(t, op, name) ==
    /\ last[t].pc = "idle"
    /\ \E d \in {n \in held : IsDir(World, n)} :
          LET me == [NoTask EXCEPT !.pc = "wait", !.op = op, !.dir = d, !.name = name]
          IN  IF op = "attach"
              THEN /\ CanMkNode(World, inodes[d].dev)
                   /\ \E m \in {FileWithData(World, d, << >>)} :
                         Settle(m.w, handles, held \cup {m.n},
                                [last EXCEPT ![t] = [me EXCEPT !.made = m.n]])
              ELSE Settle(World, handles, held, [last EXCEPT ![t] = me])
    /\ UNCHANGED <<copy, cap, issued, devheld>>

\* let mut ilock = self.link.inode.data.write().await
task_lock(t) ==
    /\ last[t].pc = "wait"
    /\ ~Locked(last, last[t].dir)
    /\ last' = [last EXCEPT ![t].pc = "locked"]
    /\ UNCHANGED <<copy, cap, issued, ledger, devs, devheld, inodes, treevars>>

\* ilock.content.contains_key(name): a name that is there returns exist,
\* dropping the guard and the node brought
task_check(t) ==
    /\ last[t].pc = "locked"
    /\ IF last[t].name \in DOMAIN nodes[last[t].dir].map
       THEN Settle(World, handles, held \ {last[t].made},
                   [last EXCEPT ![t].pc = "done", ![t].res = "exist"])
       ELSE Settle(World, handles, held, [last EXCEPT ![t].pc = "absent"])
    /\ UNCHANGED <<copy, cap, issued, devheld>>

\* ilock.content.insert(name, child), BTreeMap::insert: the child takes the
\* place of whatever the name held; open_file then opens the child; the
\* call returns and the guard is dropped
task_insert(t) ==
    /\ last[t].pc = "absent"
    /\ LET d    == last[t].dir
           name == last[t].name
           into(w, n) == [w EXCEPT !.nodes[d].map = Ext(@, name, n)]
           ok(n) == [last EXCEPT ![t].pc = "done", ![t].res = "ok", ![t].made = n]
       IN  CASE last[t].op = "attach" ->
                  Settle(into(World, last[t].made), handles, held \ {last[t].made}, ok(last[t].made))
             [] last[t].op = "create_dir" ->
                  /\ CanMkNode(World, inodes[d].dev)
                  /\ \E m \in {DirectoryNew(World, d, nodes[d].ctor)} :
                        Settle(into(m.w, m.n), handles, held, ok(m.n))
             [] OTHER ->
                  /\ CanMkNode(World, inodes[d].dev)
                  /\ \E m \in {FileWithData(World, d, << >>)} :
                     \E o \in {NodeOpenFile(into(m.w, m.n), m.n, FALSE, TRUE, TRUE, {})} :
                        Settle(into(m.w, m.n), HAdd(handles, o.h), held, ok(m.n))
    /\ UNCHANGED <<copy, cap, issued, devheld>>

RaceOps == {"create_dir", "open_file", "attach"}

RaceNames == {"a", "b"}

NextRace ==
    \/ \E t \in Tasks, op \in RaceOps, name \in RaceNames : task_call(t, op, name)
    \/ \E t \in Tasks : task_lock(t)
    \/ \E t \in Tasks : task_check(t)
    \/ \E t \in Tasks : task_insert(t)

\* a root directory that can create files, and MaxTasks tasks about to call
InitRace ==
    /\ copy = "ledger"
    /\ cap = [ids |-> 1 + MaxTasks, nodes |-> 1 + MaxTasks, handles |-> MaxTasks]
    /\ issued = 0
    /\ LET m == DirectoryRoot([ledger |-> NewPool, devs |-> << >>, inodes |-> << >>, nodes |-> << >>], TRUE)
       IN  /\ ledger = m.w.ledger
           /\ devs = m.w.devs
           /\ inodes = m.w.inodes
           /\ nodes = m.w.nodes
           /\ held = {m.n}
    /\ devheld = {}
    /\ handles = << >>
    /\ last = [t \in Tasks |-> NoTask]

SpecRace == InitRace /\ [][NextRace]_vars

\* ---- tasks that read and write one file at the same time ----
\* Each task has a handle of its own on the file (a call takes &mut self):
\* last[t] holds the handle h, the buffers of the call (arg), how many of
\* them were served (n) and the bytes read (out).

NoIo == [pc |-> "idle", op |-> "none", dir |-> 0, h |-> NoHandle, arg |-> << >>, n |-> 0,
         out |-> << >>, res |-> ""]

\* no writer is seen
WritingNever(ts, f) == FALSE

\* a task holds the exclusive guard of f: inode.data.write()
Writing(ts, f) ==
    \E u \in DOMAIN ts : ts[u].dir = f /\ ts[u].pc = "held" /\ ts[u].op = "write_vectored"

\* a task holds a shared guard of f: inode.data.read()
Reading(ts, f) ==
    \E u \in DOMAIN ts : ts[u].dir = f /\ ts[u].pc = "held" /\ ts[u].op = "read_vectored"

\* task t opens the file f with the flags fl and calls write_vectored(arg)
\* or read_vectored with buffers of the sizes arg
io_call(t, f, fl, op, arg) ==
    /\ last[t].pc = "idle"
    /\ f \in DOMAIN nodes /\ nodes[f].kind = "file"
    /\ \E o \in {NodeOpenFile(World, f, FALSE, TRUE, TRUE, fl)} :
          /\ handles' = HAdd(handles, o.h)
          /\ last' = [last EXCEPT ![t] = [NoIo EXCEPT !.pc = "wait", !.op = op, !.dir = f,
                                                      !.h = o.h, !.arg = arg]]
    /\ UNCHANGED <<copy, cap, issued, ledger, devs, devheld, inodes, nodes, held>>

\* self.state.write().await, which nobody else asks for, and then
\* inode.data.write().await or inode.data.read().await
io_lock(t) ==
    /\ last[t].pc = "wait"
    /\ ~Writing(last, last[t].dir)
    /\ last[t].op = "write_vectored" => ~Reading(last, last[t].dir)
    /\ last' = [last EXCEPT ![t].pc = "held"]
    /\ UNCHANGED <<copy, cap, issued, ledger, devs, devheld, inodes, treevars>>

\* one turn of the loop over the buffers, under the guards taken
io_buf(t) ==
    /\ last[t].pc = "held"
    /\ last[t].n < Len(last[t].arg)
    /\ LET h   == last[t].h
           f   == last[t].dir
           buf == last[t].arg[last[t].n + 1]
           app == "APPEND" \in h.fl
           rd  == ReadBufs(nodes[f].data, h.pos, <<buf>>)
           at  == IF last[t].op = "write_vectored"
                  THEN (IF app THEN h.pos ELSE h.pos + Len(buf)) ELSE rd.pos
       IN  /\ nodes' = IF last[t].op = "write_vectored"
                       THEN [nodes EXCEPT ![f].data = WriteAt(@, WritePos(@, h.pos, app), buf)]
                       ELSE nodes
           /\ handles' = Moved(h, at)
           /\ last' = [last EXCEPT ![t].n = @ + 1, ![t].h = [h EXCEPT !.pos = at],
                                   ![t].out = IF last[t].op = "write_vectored" THEN @ ELSE @ \o rd.data]
    /\ UNCHANGED <<copy, cap, issued, ledger, devs, devheld, inodes, held>>

\* Ok(total): the guards are dropped
io_return(t) ==
    /\ last[t].pc = "held"
    /\ last[t].n = Len(last[t].arg)
    /\ last' = [last EXCEPT ![t].pc = "done", ![t].res = "ok"]
    /\ UNCHANGED <<copy, cap, issued, ledger, devs, devheld, inodes, treevars>>

\* what the tasks write: two buffers each
IoWrites == { << <<1>>, <<1>> >>, << <<2>>, <<2>> >> }

\* the buffers a task reads into
IoReads == { <<1, 3>> }

NextIo ==
    \/ \E t \in Tasks, f \in DOMAIN nodes, fl \in {{}, {"APPEND"}}, arg \in IoWrites :
          io_call(t, f, fl, "write_vectored", arg)
    \/ \E t \in Tasks, f \in DOMAIN nodes, arg \in IoReads : io_call(t, f, {}, "read_vectored", arg)
    \/ \E t \in Tasks : io_lock(t)
    \/ \E t \in Tasks : io_buf(t)
    \/ \E t \in Tasks : io_return(t)

\* a root directory with a file of one byte, and MaxTasks tasks about to open it
InitIo ==
    /\ copy = "ledger"
    /\ cap = [ids |-> 2, nodes |-> 2, handles |-> MaxTasks]
    /\ issued = 0
    /\ \E m \in {DirectoryRoot([ledger |-> NewPool, devs |-> << >>, inodes |-> << >>, nodes |-> << >>], TRUE)} :
       \E f \in {FileWithData(m.w, m.n, FileData)} :
       \E a \in {Attach(f.w, m.n, <<"f">>, f.n)} :
          /\ ledger = a.w.ledger
          /\ devs = a.w.devs
          /\ inodes = a.w.inodes
          /\ nodes = a.w.nodes
          /\ held = {m.n}
    /\ devheld = {}
    /\ handles = << >>
    /\ last = [t \in Tasks |-> NoIo]

SpecIo == InitIo /\ [][NextIo]_vars

\* ---- tasks and the locks of the inodes ----
\* Every inode has a tokio RwLock, which serves its waiters in the order
\* they came.  last[t] holds the call of task t, the guards it has (has:
\* pairs of node and mode), the guard it waits for (want) and its place
\* among those waiting for that lock (rank).

NoWant == << >>

NoLock == [pc |-> "idle", op |-> "none", dir |-> 0, name |-> "", has |-> {}, want |-> NoWant,
           rank |-> 0]

\* the lock a call takes first: that of the directory or file it is called on
FirstLock(op, d) ==
    IF op \in {"get_path_filestat", "get_filestat"} THEN <<d, "R">> ELSE <<d, "W">>

\* the call asks for the lock it already has
SecondLockSelf(w, op, d, name) == <<d, "R">>

\* the lock a call takes while it has that of the directory d: remove_dir
\* reads the child directory, a truncating open_file resizes the child file,
\* get_path_filestat stats the child it could open
SecondLock(w, op, d, name) ==
    IF ~IsDir(w, d) \/ name \notin DOMAIN w.nodes[d].map THEN NoWant
    ELSE LET c == w.nodes[d].map[name]
         IN  CASE op = "remove_dir" ->
                     IF SameDevice(w, d, c) /\ IsDir(w, c) THEN <<c, "R">> ELSE NoWant
               [] op = "open_file" -> IF w.nodes[c].kind = "file" THEN <<c, "W">> ELSE NoWant
               [] op = "get_path_filestat" ->
                     IF NodeOpenFile(w, c, FALSE, FALSE, FALSE, {}).err = "ok" THEN <<c, "R">> ELSE NoWant
               [] OTHER -> NoWant

\* how many tasks wait for the lock of n
Waiting(ts, n) == Cardinality({u \in DOMAIN ts : ts[u].want # NoWant /\ ts[u].want[1] = n})

\* the semaphore of the RwLock has the permits for the guard t waits for
Granted(ts, t) ==
    /\ ts[t].rank = 1
    /\ \A u \in DOMAIN ts \ {t} : \A g \in ts[u].has :
          g[1] = ts[t].want[1] => (g[2] = "R" /\ ts[t].want[2] = "R")

\* the calls made of a handle: of the root's, of /a's, of the file's
LockCalls(h) ==
    IF h.api = "file" THEN { <<"set_filestat_size", "">>, <<"get_filestat", "">> }
    ELSE IF nodes[h.node].parent = 0
    THEN { <<"remove_dir", "a">>, <<"get_path_filestat", "a">> }
    ELSE { <<"remove_dir", "b">>, <<"unlink_file", "f">>, <<"open_file", "f">>,
           <<"get_path_filestat", "f">> }

\* task t makes a call of the handle h and comes to its first await
lock_call(t, h, op, name) ==
    /\ last[t].pc = "idle"
    /\ h \in DOMAIN handles
    /\ <<op, name>> \in LockCalls(h)
    /\ last' = [last EXCEPT ![t] = [NoLock EXCEPT !.pc = "queued", !.op = op, !.dir = h.node,
                                                  !.name = name, !.want = FirstLock(op, h.node),
                                                  !.rank = 1 + Waiting(last, h.node)]]
    /\ UNCHANGED <<copy, cap, issued, ledger, devs, devheld, inodes, treevars>>

\* the await returns the guard; with the directory's guard the call looks
\* the child up and comes to the await of the child's lock, or runs on
lock_take(t) ==
    /\ last[t].pc = "queued"
    /\ Granted(last, t)
    /\ LET me   == last[t]
           next == IF me.has = {} THEN SecondLock(World, me.op, me.dir, me.name) ELSE NoWant
           left == [u \in Tasks |->
                      IF u # t /\ last[u].want # NoWant /\ last[u].want[1] = me.want[1]
                      THEN [last[u] EXCEPT !.rank = @ - 1] ELSE last[u]]
       IN  last' = [left EXCEPT ![t] =
                       [me EXCEPT !.has = @ \cup {me.want}, !.want = next,
                                  !.pc = IF next = NoWant THEN "run" ELSE "queued",
                                  !.rank = IF next = NoWant THEN 0
                                           ELSE 1 + Waiting([last EXCEPT ![t].want = NoWant], next[1])]]
    /\ UNCHANGED <<copy, cap, issued, ledger, devs, devheld, inodes, treevars>>

\* under its guards the call does its work and returns, dropping them; the
\* handle a truncating open returns is dropped by the caller, who is free
\* to call again; the three handles that stay open keep every node alive,
\* so that a node taken from a map is not dropped
lock_run(t) ==
    /\ last[t].pc = "run"
    /\ LET me == last[t]
           r  == CASE me.op = "remove_dir" -> RemoveDirAt(World, me.dir, me.name)
                   [] me.op = "unlink_file" -> UnlinkFileAt(World, me.dir, me.name)
                   [] me.op = "open_file" ->
                         OpenFileAt(World, me.dir, me.name, {"TRUNCATE"}, TRUE, TRUE, {})
                   [] me.op = "get_path_filestat" ->
                         [err |-> GetPathFilestatAt(World, me.dir, me.name).err, w |-> World]
                   [] me.op = "set_filestat_size" ->
                         [err |-> "ok", w |-> [World EXCEPT !.nodes[me.dir].data = << >>]]
                   [] OTHER -> [err |-> "ok", w |-> World]
       IN  /\ nodes' = r.w.nodes
           /\ last' = [last EXCEPT ![t] = NoLock]
    /\ UNCHANGED <<copy, cap, issued, ledger, devs, devheld, inodes, handles, held>>

LockOps == {"remove_dir", "unlink_file", "open_file", "get_path_filestat", "set_filestat_size",
            "get_filestat"}

LockNames == {"a", "b", "f", ""}

NextLocks ==
    \/ \E t \in Tasks, h \in DOMAIN handles, op \in LockOps, name \in LockNames :
          lock_call(t, h, op, name)
    \/ \E t \in Tasks : lock_take(t)
    \/ \E t \in Tasks : lock_run(t)

\* the tree /a/b, /a/f with handles open on /, on /a and on the file /a/f
InitLocks ==
    /\ copy = "ledger"
    /\ cap = [ids |-> 4, nodes |-> 4, handles |-> 3]
    /\ issued = 0
    /\ \E m \in {DirectoryRoot([ledger |-> NewPool, devs |-> << >>, inodes |-> << >>, nodes |-> << >>], TRUE)} :
       \E a \in {DirectoryNew(m.w, m.n, TRUE)} :
       \E a1 \in {Attach(a.w, m.n, <<"a">>, a.n)} :
       \E b \in {DirectoryNew(a1.w, a.n, TRUE)} :
       \E b1 \in {Attach(b.w, m.n, <<"a", "b">>, b.n)} :
       \E f \in {FileWithData(b1.w, a.n, FileData)} :
       \E f1 \in {Attach(f.w, m.n, <<"a", "f">>, f.n)} :
          /\ ledger = f1.w.ledger
          /\ devs = f1.w.devs
          /\ inodes = f1.w.inodes
          /\ nodes = f1.w.nodes
          /\ held = {}
          /\ handles = HAdd(HAdd(HAdd(<< >>, OpenRec(f1.w, m.n, FALSE, FALSE, {}, "dir")),
                                 OpenRec(f1.w, a.n, FALSE, FALSE, {}, "dir")),
                            OpenRec(f1.w, f.n, TRUE, TRUE, {}, "file"))
    /\ devheld = {}
    /\ last = [t \in Tasks |-> NoLock]

SpecLocks == InitLocks /\ [][NextLocks]_vars

\* the runtime polls a task whose await can return, and a task that runs
SpecLocksFair == SpecLocks /\ \A t \in Tasks : WF_vars(lock_take(t) \/ lock_run(t))

\* ---- a write to a factory whose task is dropped ----
\* the factory nodes
Factories == {n \in DOMAIN nodes : nodes[n].kind \in {"generate", "trust"}}

\* last[t] holds the write of task t to the factory at: where it is (adding:
\* at an await of add; pushing: at the await of the factory's lock), what was
\* written (arg) and the uuid add returned.

NoWrite == [pc |-> "idle", op |-> "none", at |-> 0, arg |-> << >>, uuid |-> "", res |-> ""]

\* a task holds the lock of the factory f to read its state
FactoryBusy(ts, f) == \E u \in DOMAIN ts : ts[u].at = f /\ ts[u].pc = "reading"

\* write_vectored up to the first await: what is refused is refused at once
key_call(t, f, in) ==
    /\ last[t].pc = "idle"
    /\ f \in Factories
    /\ LET gen == nodes[f].kind = "generate"
           op  == IF gen THEN "generate_write" ELSE "trust_write"
           err == IF gen
                  THEN (IF Len(in) # 1 \/ Len(in[1]) # 4 THEN "inval"
                        ELSE IF in[1] \notin Recognized THEN "ilseq" ELSE "ok")
                  ELSE (IF Capacity(in.lens) < TrustMin \/ Capacity(in.lens) > TrustMax THEN "inval"
                        ELSE IF in.tag \notin Recognized THEN "ilseq" ELSE Decode(in))
       IN  last' = [last EXCEPT ![t] =
                       [NoWrite EXCEPT !.pc = IF err = "ok" THEN "adding" ELSE "done",
                                       !.op = op, !.at = f, !.arg = in, !.res = err]]
    /\ UNCHANGED <<copy, cap, issued, ledger, devs, devheld, inodes, treevars>>

\* add: the key directory is made and attached to the overlay under the
\* uuid; the call comes to the await of the factory's own lock
key_add(t) ==
    /\ last[t].pc = "adding"
    /\ CanAddKey(World, inodes[last[t].at].dev)
    /\ \E a \in {IF last[t].op = "generate_write" THEN GenerateAdd(World, last[t].at, last[t].arg[1])
                 ELSE TrustAdd(World, last[t].at, last[t].arg)} :
          /\ Commit(a.w, handles)
          /\ issued' = issued + 1
          /\ last' = [last EXCEPT ![t].pc = IF a.err = "ok" THEN "pushing" ELSE "done",
                                  ![t].uuid = a.uuid, ![t].res = a.err]
    /\ UNCHANGED <<copy, cap, devheld, held>>

\* self.link.0.inode.data.write().await.content.push(uuid), and Ok
key_push(t) ==
    /\ last[t].pc = "pushing"
    /\ ~FactoryBusy(last, last[t].at)
    /\ \E a \in {PushUuid([err |-> "ok", w |-> World, uuid |-> last[t].uuid], last[t].at)} :
          Commit(a.w, handles)
    /\ last' = [last EXCEPT ![t].pc = "done"]
    /\ UNCHANGED <<copy, cap, issued, devheld, held>>

\* get_filestat of a factory's handle takes the lock to read
key_stat(t, f) ==
    /\ last[t].pc = "idle"
    /\ f \in Factories
    /\ \A u \in Tasks : last[u].at = f => last[u].pc # "reading"
    /\ last' = [last EXCEPT ![t] = [NoWrite EXCEPT !.pc = "reading", !.op = "get_filestat", !.at = f]]
    /\ UNCHANGED <<copy, cap, issued, ledger, devs, devheld, inodes, treevars>>

\* and returns, dropping the guard
key_stat_return(t) ==
    /\ last[t].pc = "reading"
    /\ last' = [last EXCEPT ![t].pc = "done", ![t].res = "ok"]
    /\ UNCHANGED <<copy, cap, issued, ledger, devs, devheld, inodes, treevars>>

\* the future of the write is dropped at the await it is suspended at
key_drop(t) ==
    /\ last[t].pc \in {"adding", "pushing"}
    /\ last' = [last EXCEPT ![t].pc = "dropped"]
    /\ UNCHANGED <<copy, cap, issued, ledger, devs, devheld, inodes, treevars>>

NextCancel ==
    \/ \E t \in Tasks, f \in Factories :
          \E in \in IF nodes[f].kind = "generate" THEN MutKeys ELSE MutTrusts : key_call(t, f, in)
    \/ \E t \in Tasks : key_add(t)
    \/ \E t \in Tasks : key_push(t)
    \/ \E t \in Tasks, f \in Factories : key_stat(t, f)
    \/ \E t \in Tasks : key_stat_return(t)
    \/ \E t \in Tasks : key_drop(t)

InitCancel ==
    /\ KeysTree([ids |-> 3 + 4 * MaxKeys, nodes |-> 3 + 4 * MaxKeys, handles |-> 0])
    /\ last = [t \in Tasks |-> NoWrite]

SpecCancel == InitCancel /\ [][NextCancel]_vars

\* ---- the names that get into the maps ----
\* A path is the sequence of its segments, the pieces between separators:
\* "a/" is <<"a", "">>, "/a" is <<"", "a">>, "a/.." is <<"a", "..">>.
NamePaths == { <<"a">>, <<"">>, <<".">>, <<"..">>, <<"a", "">>, <<"a", "..">>, <<"a", "a">> }

NameOFlags == { {"CREATE"}, {"CREATE", "DIRECTORY"} }

NextNames ==
    \/ \E n \in held : node_open_dir(n)
    \/ \E self \in held, path \in NamePaths : attach_file(self, path, self)
    \/ \E h \in DOMAIN handles, path \in NamePaths : create_dir(h, path)
    \/ \E h \in DOMAIN handles, path \in NamePaths \cup {<<"generate">>}, ofl \in NameOFlags :
          open_file(h, path, ofl, TRUE, TRUE, {})
    \/ \E h \in DOMAIN handles : generate_write(h, <<ES256>>)
    \/ \E h \in DOMAIN handles : close(h)
    \/ return

SpecNames == InitMut /\ [][NextNames]_vars

\* ---- the shape of the tree ----
TreePaths == { <<"a">>, <<"b">>, <<"a", "a">>, <<"a", "b">> }

\* the embedder attaches files and directories it builds, with the directory
\* they go in or with the directory it calls attach on as their parent; the
\* guest makes directories; keys are generated
NextTree ==
    \/ \E n \in held : node_open_dir(n)
    \/ \E self \in held, path \in TreePaths :
          \E p \in {self, Container(self, path)} : attach_file(self, path, p)
    \/ \E self \in held, path \in TreePaths : attach_dir(self, path)
    \/ \E h \in DOMAIN handles, path \in TreePaths : create_dir(h, path)
    \/ \E h \in DOMAIN handles, path \in TreePaths :
          open_file(h, path, {"CREATE", "DIRECTORY"}, TRUE, TRUE, {})
    \/ \E h \in DOMAIN handles : open_file(h, <<"generate">>, {}, TRUE, TRUE, {})
    \/ \E h \in DOMAIN handles : generate_write(h, <<ES256>>)
    \/ \E h \in DOMAIN handles : close(h)
    \/ return

SpecTree == InitMut /\ [][NextTree]_vars

\* ---- reads at and beyond the end ----

\* OpenFile::num_ready_bytes: content.len() - min(content.len(), pos)
NumReady(content, pos) == Len(content) - Min({Len(content), pos})

num_ready_bytes(h) ==
    /\ Idle
    /\ h \in FileHandles
    /\ last' = IF ~h.rd THEN FileCall("num_ready_bytes", h, << >>, "io", << >>)
               ELSE FileCall("num_ready_bytes", h, << >>, "ok", <<NumReady(nodes[h.node].data, h.pos)>>)
    /\ UNCHANGED <<copy, cap, issued, ledger, devs, devheld, inodes, treevars>>

\* the buffers read into: one byte, two and two, one of no bytes, none
EndReads == { <<1>>, <<2, 2>>, <<0>>, << >> }

\* a file is made, written, resized and truncated under open handles; the
\* cursor is moved to, before and beyond the end; the file is read
NextReads ==
    \/ \E n \in held : node_open_dir(n)
    \/ \E h \in DOMAIN handles, ofl \in {{"CREATE"}, {"TRUNCATE"}} :
          open_file(h, <<"a">>, ofl, TRUE, TRUE, {})
    \/ \E h \in DOMAIN handles : write_vectored(h, << <<1, 2>> >>)
    \/ \E h \in DOMAIN handles, size \in {0, 1} : set_filestat_size(h, size)
    \/ \E h \in DOMAIN handles, off \in {0, 2, 3} : seek(h, "Start", off)
    \/ \E h \in DOMAIN handles, sizes \in EndReads : read_vectored(h, sizes)
    \/ \E h \in DOMAIN handles, sizes \in EndReads, offset \in {0, 2, 3} :
          read_vectored_at(h, sizes, offset)
    \/ \E h \in DOMAIN handles, size \in {0, 1, 3} : peek(h, size)
    \/ \E h \in DOMAIN handles : num_ready_bytes(h)
    \/ \E h \in DOMAIN handles : close(h)
    \/ return

SpecReads == InitFile /\ [][NextReads]_vars

\* ---- properties ----
(***************************************************************************)
(* C1: the DeviceIds live on the ledger are pairwise distinct and the      *)
(* InodeIds live on one device are pairwise distinct, after any sequence   *)
(* of create_device, create_inode and drops.                               *)
(***************************************************************************)
C1_IdsDistinct ==
    /\ \A d1, d2 \in DOMAIN devs : devs[d1].id = devs[d2].id => d1 = d2
    /\ \A i1, i2 \in DOMAIN inodes :
          (inodes[i1].dev = inodes[i2].dev /\ inodes[i1].id = inodes[i2].id) => i1 = i2

\* two devices and two inodes of one device are live after a drop
C1_Witness ==
    /\ last.op \in {"drop_inode", "drop_device"}
    /\ Cardinality(DOMAIN devs) >= 2
    /\ \E d \in DOMAIN devs : Cardinality(InodesOf(inodes, d)) >= 2

(***************************************************************************)
(* C2: id reuse: for any sequence of create and drop on one pool (the      *)
(* ledger's or a device's), the next allocation returns the smallest id    *)
(* that is not live at the call.                                           *)
(***************************************************************************)
SmallestNotIn(S) == Min({v \in 0..Cardinality(S) : v \notin S})

C2_SmallestFree ==
    [][ /\ last'.op = "create_device" => last'.id = SmallestNotIn(LiveDeviceIds)
        /\ last'.op = "create_inode" => last'.id = SmallestNotIn(LiveInodeIds(last'.obj)) ]_vars

\* the child the last segment of the call names, in the directory it was handled in
Target == nodes[last'.dir].map[last'.name]

\* the call named an entry of the directory its last segment was handled in
Named(op) ==
    /\ last'.op = op
    /\ last'.dir # 0
    /\ last'.name \in DOMAIN nodes[last'.dir].map

\* the call left the directory its last segment was handled in as it was
DirUnchanged ==
    /\ last'.dir \in DOMAIN nodes'
    /\ nodes'[last'.dir] = nodes[last'.dir]

\* the call took exactly the entry it named out of the directory
EntryRemoved ==
    /\ last'.dir \in DOMAIN nodes'
    /\ nodes'[last'.dir].map = Without(nodes[last'.dir].map, last'.name)

(***************************************************************************)
(* C3: for a directory D and a name n of a child that is a directory on    *)
(* D's device and has entries, remove_dir(n) returns an error and leaves   *)
(* D's map and the child as they were.                                     *)
(***************************************************************************)
C3_RefusesNonEmpty ==
    [][ ( /\ Named("remove_dir")
          /\ nodes[Target].kind = "dir"
          /\ DevIdOf(World, Target) = DevIdOf(World, last'.dir)
          /\ DOMAIN nodes[Target].map # {} )
        => ( /\ last'.res # "ok"
             /\ DirUnchanged
             /\ Target \in DOMAIN nodes'
             /\ nodes'[Target] = nodes[Target] ) ]_vars

(***************************************************************************)
(* C4: for a directory D and a name n of a child that is an empty          *)
(* directory on D's device, remove_dir(n) succeeds, and afterwards n is    *)
(* neither in D's map nor in what readdir of D lists.                      *)
(***************************************************************************)
C4_RemovesEmpty ==
    [][ ( /\ Named("remove_dir")
          /\ nodes[Target].kind = "dir"
          /\ DevIdOf(World, Target) = DevIdOf(World, last'.dir)
          /\ DOMAIN nodes[Target].map = {} )
        => ( /\ last'.res = "ok"
             /\ EntryRemoved
             /\ \A i \in DOMAIN Readdir([nodes |-> nodes'], last'.dir) :
                   Readdir([nodes |-> nodes'], last'.dir)[i].name # last'.name ) ]_vars

\* the names generate has given to key directories so far
IssuedUuids == {Uuids[k] : k \in 1..issued}

\* the names readdir of directory d lists in the state after the step
ListedAfter(d) ==
    {Readdir([nodes |-> nodes'], d)[i].name : i \in DOMAIN Readdir([nodes |-> nodes'], d)}

C6_CrossDeviceRefused ==
    [][ ( /\ Named("remove_dir") \/ Named("unlink_file")
          /\ DevIdOf(World, Target) # DevIdOf(World, last'.dir) )
        => ( /\ last'.res # "ok"
             /\ DirUnchanged ) ]_vars

\* unlink_file was refused for a file of another device, which is still there
C6_Witness ==
    /\ last.op = "unlink_file"
    /\ last.res = "io"
    /\ last.dir \in DOMAIN nodes
    /\ last.name \in DOMAIN nodes[last.dir].map
    /\ nodes[nodes[last.dir].map[last.name]].kind = "file"
    /\ DevIdOf(World, nodes[last.dir].map[last.name]) # DevIdOf(World, last.dir)

(***************************************************************************)
(* C7: unlink_file(n) on a directory D succeeds exactly when n is a child  *)
(* of D that is not a directory and is on D's device, and then takes n out *)
(* of D's map; a directory child is refused, a missing child is not found, *)
(* "", "." and ".." are an invalid argument, and D is as it was after each *)
(* refusal.                                                                *)
(***************************************************************************)
C7_UnlinkFile ==
    [][ (last'.op = "unlink_file" /\ last'.dir # 0)
        => LET D    == nodes[last'.dir]
               n    == last'.name
               good == /\ n \in DOMAIN D.map
                       /\ nodes[D.map[n]].kind # "dir"
                       /\ DevIdOf(World, D.map[n]) = DevIdOf(World, last'.dir)
           IN  /\ last'.res = "ok" <=> good
               /\ good => EntryRemoved
               /\ ~good => DirUnchanged
               /\ n \in {"", ".", ".."} => last'.res = "inval"
               /\ (n \notin {"", ".", ".."} /\ n \notin DOMAIN D.map) => last'.res = "noent"
               /\ (n \in DOMAIN D.map /\ nodes[D.map[n]].kind = "dir") => last'.res \notin {"ok", "noent", "inval"} ]_vars

\* unlink_file took a file out of a directory that keeps another entry
C7_Witness ==
    /\ last.op = "unlink_file"
    /\ last.res = "ok"
    /\ last.dir \in DOMAIN nodes
    /\ last.name \notin DOMAIN nodes[last.dir].map
    /\ DOMAIN nodes[last.dir].map # {}

\* the call changed no node and opened no handle
NothingChanged ==
    /\ nodes' = nodes
    /\ inodes' = inodes
    /\ devs' = devs
    /\ ledger' = ledger
    /\ handles' = handles

\* the flags of the call do not pass: a set of OFlags that is none of the
\* eight, or TRUNCATE without write
FlagsRefused ==
    \/ last'.ofl \notin { {}, {"CREATE"}, {"DIRECTORY"}, {"TRUNCATE"},
                          {"CREATE", "DIRECTORY"}, {"CREATE", "EXCLUSIVE"},
                          {"CREATE", "TRUNCATE"}, {"CREATE", "DIRECTORY", "EXCLUSIVE"} }
    \/ ("TRUNCATE" \in last'.ofl /\ ~last'.wr)

C9_CreateExclusive ==
    [][ ( /\ Named("open_file")
          /\ last'.ofl \in {{"CREATE", "EXCLUSIVE"}, {"CREATE", "DIRECTORY", "EXCLUSIVE"}} )
        => ( /\ last'.res = "exist"
             /\ handles' = handles
             /\ DirUnchanged
             /\ Target \in DOMAIN nodes'
             /\ nodes'[Target] = nodes[Target] ) ]_vars

\* CREATE|EXCLUSIVE returned exists for a file with content
C9_Witness ==
    /\ last.op = "open_file"
    /\ last.res = "exist"
    /\ last.ofl = {"CREATE", "EXCLUSIVE"}
    /\ last.dir \in DOMAIN nodes
    /\ last.name \in DOMAIN nodes[last.dir].map
    /\ nodes[nodes[last.dir].map[last.name]].data = <<1>>

\* the call is open_file with flags that pass, its last segment an ordinary name
\* handled in a directory
Ordinary ==
    /\ last'.op = "open_file"
    /\ last'.dir # 0
    /\ last'.name \notin {"", ".", ".."}
    /\ ~FlagsRefused

\* the call opened exactly one handle, on node c in the given mode
Opened(c, rd, wr, fl) ==
    handles' = HAdd(handles, [node |-> c, root |-> RootOf([nodes |-> nodes'], c),
                              rd |-> rd, wr |-> wr, fl |-> fl, pos |-> 0, api |-> "file",
                              hash |-> << >>])

OpenedAsAsked(c) == Opened(c, last'.rd, last'.wr, last'.fl)

\* the rows of the table for a missing name
MissingRows ==
    LET d   == last'.dir
        n   == last'.name
        w2  == [devs |-> devs', inodes |-> inodes', nodes |-> nodes']
        new == nodes'[d].map[n]
    IN  /\ "CREATE" \notin last'.ofl => (last'.res = "noent" /\ NothingChanged)
        /\ ("CREATE" \in last'.ofl /\ "DIRECTORY" \notin last'.ofl /\ ~nodes[d].ctor)
              => (last'.res = "notsup" /\ NothingChanged)
        /\ ("CREATE" \in last'.ofl /\ ("DIRECTORY" \in last'.ofl \/ nodes[d].ctor))
              => ( /\ last'.res = "ok"
                   /\ d \in DOMAIN nodes'
                   /\ DOMAIN nodes'[d].map = DOMAIN nodes[d].map \cup {n}
                   /\ \A k \in DOMAIN nodes[d].map : nodes'[d].map[k] = nodes[d].map[k]
                   /\ new \notin DOMAIN nodes
                   /\ nodes'[new].kind = IF "DIRECTORY" \in last'.ofl THEN "dir" ELSE "file"
                   /\ nodes'[new].map = << >>
                   /\ nodes'[new].data = << >>
                   /\ DevIdOf(w2, new) = DevIdOf(w2, d)
                   /\ OpenedAsAsked(new) )

\* the truncation of a regular file
Truncated ==
    /\ last'.res = "ok"
    /\ Target \in DOMAIN nodes'
    /\ nodes'[Target].data = << >>
    /\ DirUnchanged
    /\ Opened(Target, FALSE, TRUE, {})

(***************************************************************************)
(* C10: open_file with flags that pass, on an ordinary last segment n in a *)
(* directory D.  n missing: without CREATE not found; with CREATE a new    *)
(* child on D's device is put in D's map and opened as asked, a directory  *)
(* iff DIRECTORY, else a regular file of D's constructor, or not supported *)
(* with nothing changed if D has none.  n existing: with TRUNCATE a        *)
(* regular file is emptied and opened write-only without flags, and a      *)
(* directory gives not supported with nothing changed; without TRUNCATE,   *)
(* CREATE|EXCLUSIVE gives exists, DIRECTORY on a regular file gives not a  *)
(* directory, and else the child is opened as asked.                       *)
(***************************************************************************)
C10_DecisionTable ==
    [][ Ordinary
        => IF last'.name \notin DOMAIN nodes[last'.dir].map THEN MissingRows
           ELSE IF "TRUNCATE" \in last'.ofl
                THEN IF nodes[Target].kind = "file" THEN Truncated
                     ELSE (last'.res = "notsup" /\ NothingChanged)
           ELSE IF "EXCLUSIVE" \in last'.ofl THEN (last'.res = "exist" /\ NothingChanged)
           ELSE IF nodes[Target].kind = "file" /\ "DIRECTORY" \in last'.ofl
                THEN (last'.res = "notdir" /\ NothingChanged)
           ELSE (last'.res = "ok" /\ nodes' = nodes /\ OpenedAsAsked(Target)) ]_vars

\* as stated: an existing child is truncated and opened with TRUNCATE, and else
\* (CREATE|EXCLUSIVE apart) opened as asked, whatever it is
C10_AsStated ==
    [][ Ordinary
        => IF last'.name \notin DOMAIN nodes[last'.dir].map THEN MissingRows
           ELSE IF "TRUNCATE" \in last'.ofl THEN Truncated
           ELSE IF "EXCLUSIVE" \in last'.ofl THEN TRUE
           ELSE (last'.res = "ok" /\ nodes' = nodes /\ OpenedAsAsked(Target)) ]_vars

\* TRUNCATE on a file the embedder made with content: it is empty and a
\* write-only handle on it is open
C10_Witness ==
    /\ last.op = "open_file"
    /\ last.res = "ok"
    /\ last.ofl = {"TRUNCATE"}
    /\ last.rd
    /\ last.dir \in DOMAIN nodes
    /\ last.name \in DOMAIN nodes[last.dir].map
    /\ LET c == nodes[last.dir].map[last.name]
       IN  /\ nodes[c].kind = "file"
           /\ nodes[c].data = << >>
           /\ \E h \in DOMAIN handles : h.node = c /\ ~h.rd /\ h.wr /\ h.fl = {}

(***************************************************************************)
(* C11: open_file with flags that pass and a last segment "", "." or "..": *)
(* a set with EXCLUSIVE gives exists, a set with TRUNCATE and without       *)
(* EXCLUSIVE gives an i/o error, both with nothing changed, and else the   *)
(* directory ("" and ".") or its parent ("..", the directory itself at the *)
(* root) is opened as asked; no node is made or truncated.                 *)
(***************************************************************************)
C11_ReservedSegment ==
    [][ ( /\ last'.op = "open_file"
          /\ last'.dir # 0
          /\ last'.name \in {"", ".", ".."}
          /\ ~FlagsRefused )
        => IF "EXCLUSIVE" \in last'.ofl THEN (last'.res = "exist" /\ NothingChanged)
           ELSE IF "TRUNCATE" \in last'.ofl THEN (last'.res = "io" /\ NothingChanged)
           ELSE ( /\ last'.res = "ok"
                  /\ nodes' = nodes
                  /\ OpenedAsAsked(IF last'.name = ".." THEN Prev(World, last'.dir)
                                   ELSE last'.dir) ) ]_vars

\* a walk that takes ".." from the node the segments before it reached
RECURSIVE Resolve(_, _, _)
Resolve(w, this, segs) ==
    IF segs = << >> THEN [err |-> "ok", n |-> this]
    ELSE LET seg == Head(segs)
         IN  CASE seg \in {"", "."} -> Resolve(w, this, Tail(segs))
               [] seg = ".." -> Resolve(w, Prev(w, this), Tail(segs))
               [] OTHER ->
                    IF w.nodes[this].kind # "dir" THEN [err |-> "notdir", n |-> 0]
                    ELSE IF seg \notin DOMAIN w.nodes[this].map THEN [err |-> "noent", n |-> 0]
                    ELSE Resolve(w, w.nodes[this].map[seg], Tail(segs))

\* what the last get returned
GetResult == [err |-> last'.res, n |-> last'.out[1]]

(***************************************************************************)
(* C12: Directory::get on a directory N with path P returns what get of P  *)
(* with a separator added returns; "" and "." segments change nothing;     *)
(* each ".." goes to the parent of the node the segments before it reached *)
(* (so get("a/..") is N for a child a of N, root or not); a missing segment *)
(* is not found and a segment looked up in a non-directory is not a        *)
(* directory.                                                              *)
(***************************************************************************)
C12_GetNormalizes ==
    [][ last'.op = "get"
        => /\ GetResult = Get(World, last'.at, last'.path \o <<"">>)
           /\ GetResult = Resolve(World, last'.at, last'.path) ]_vars

\* the path without its empty and "." segments, "." if none is left
Norm(path) ==
    LET p == SelectSeq(path, LAMBDA seg : seg \notin {"", "."})
    IN  IF p = << >> THEN <<".">> ELSE p

(***************************************************************************)
(* C13: open_dir, create_dir, remove_dir and unlink_file on a directory    *)
(* handle take a path as they take the path without its empty and "."      *)
(* segments and without a separator at the end: open_dir("a/") opens what  *)
(* open_dir("a") opens, open_dir("a//a") what open_dir("a/a") opens, and   *)
(* the other calls return and do the same for both paths.                  *)
(***************************************************************************)
C13_HandleNormalizes ==
    [][ /\ last'.op = "open_dir"
           => LET r == OpenDir(World, last'.at, Norm(last'.path))
              IN  last'.res = r.err /\ last'.dir = r.n
        /\ last'.op \in {"create_dir", "remove_dir", "unlink_file"}
           => LET r == DirCall(last'.op, World, last'.at, Norm(last'.path))
              IN  /\ last'.res = r.err
                  /\ last'.res = "ok" => (last'.dir = r.dir /\ last'.name = r.name) ]_vars

\* the call was made with the path ".." on a directory without a live parent
AtTop(op) ==
    /\ last'.op = op
    /\ last'.path = <<"..">>
    /\ nodes[last'.at].parent = 0

(***************************************************************************)
(* C14: at a directory whose parent link is absent or dead, ".." is the    *)
(* directory itself: get("..") returns it, open_dir("..") and              *)
(* open_file("..") open it, and the ".." entry of its readdir carries its  *)
(* own inode id, after any sequence of operations.                         *)
(***************************************************************************)
C14_RootParentIsSelf ==
    [][ /\ AtTop("get") => (last'.res = "ok" /\ last'.out = <<last'.at>>)
        /\ AtTop("open_dir")
              => ( /\ last'.res = "ok"
                   /\ last'.dir = last'.at
                   /\ handles' = HAdd(handles, OpenRec(World, last'.at, FALSE, FALSE, {}, "dir")) )
        /\ AtTop("open_file") => (last'.res = "ok" /\ OpenedAsAsked(last'.at))
        /\ (last'.op = "readdir" /\ nodes[last'.at].parent = 0 /\ last'.arg = <<0>>)
              => ( /\ last'.out[2].name = ".."
                   /\ last'.out[2].inode = inodes[last'.at].id
                   /\ last'.out[2].filetype = "Directory" ) ]_vars

\* open_dir("..") opened a directory whose parent was dropped: it has no live
\* parent, and neither has the root that is still there
C14_Witness ==
    /\ last.op = "open_dir"
    /\ last.path = <<"..">>
    /\ last.res = "ok"
    /\ last.dir = last.at
    /\ nodes[last.at].parent = 0
    /\ \E n \in held : n # last.at /\ nodes[n].parent = 0

\* name x is before name y in the order of the names
NameBefore(x, y) ==
    LET abc == <<"a", "b">>
    IN  \E i, j \in DOMAIN abc : i < j /\ abc[i] = x /\ abc[j] = y

\* the sequence is what readdir(0) of directory d is to return
ListsInOrder(out, d) ==
    LET m == nodes[d].map
    IN  /\ Len(out) = 2 + Cardinality(DOMAIN m)
        /\ out[1] = [name |-> ".", next |-> 1, inode |-> inodes[d].id, filetype |-> "Directory"]
        /\ out[2] = [name |-> "..", next |-> 2,
                     inode |-> inodes[IF nodes[d].parent # 0 THEN nodes[d].parent ELSE d].id,
                     filetype |-> "Directory"]
        /\ {out[i].name : i \in 3..Len(out)} = DOMAIN m
        /\ \A i \in 3..Len(out) :
              /\ out[i].next = i
              /\ out[i].inode = inodes[m[out[i].name]].id
              /\ out[i].filetype = (CASE nodes[m[out[i].name]].kind = "dir" -> "Directory"
                                      [] nodes[m[out[i].name]].kind = "file" -> "RegularFile"
                                      [] OTHER -> "SocketDgram")
        /\ \A i, j \in 3..Len(out) : i < j => NameBefore(out[i].name, out[j].name)

(***************************************************************************)
(* C15: readdir(0) returns "." with the directory's inode, ".." with its   *)
(* parent's (its own at the root), then every child in ascending order of  *)
(* the names, the i-th entry (from 0) with next cursor i+1 and the child's *)
(* inode id and file type; readdir(k) returns readdir(0) without its first *)
(* k entries; readdir changes nothing, so that a second readdir(0) returns *)
(* the same sequence.                                                      *)
(***************************************************************************)
C15_ReaddirOrder ==
    [][ last'.op = "readdir"
        => LET k    == last'.arg[1]
               full == ReaddirFrom(World, last'.at, 0)
           IN  /\ ListsInOrder(full, last'.at)
               /\ last'.out = [i \in 1..(IF Len(full) > k THEN Len(full) - k ELSE 0) |-> full[i + k]]
               /\ NothingChanged
               /\ ReaddirFrom([inodes |-> inodes', nodes |-> nodes'], last'.at, 0) = full ]_vars

\* readdir(1) of a directory with a directory "a" and a file "b": "..", "a", "b"
C15_Witness ==
    /\ last.op = "readdir"
    /\ last.arg = <<1>>
    /\ Len(last.out) = 3
    /\ last.out[1].name = ".."
    /\ last.out[2] = [name |-> "a", next |-> 3, inode |-> inodes[nodes[last.at].map["a"]].id,
                      filetype |-> "Directory"]
    /\ last.out[3].name = "b"
    /\ last.out[3].filetype = "RegularFile"

\* the path of the attach without the separators at its end, and what get of
\* the part before its last segment returns (the directory itself if there is none)
AttachPath == TrimEnd(last'.path)

AttachParent ==
    IF Len(AttachPath) = 1 THEN [err |-> "ok", n |-> last'.at]
    ELSE Get(World, last'.at, SubSeq(AttachPath, 1, Len(AttachPath) - 1))

(***************************************************************************)
(* C16: attach(path, node) puts the node under the last segment of the     *)
(* path (the separators at its end apart) in the directory that get of the *)
(* part before returns.  An error of that get is returned; a parent that   *)
(* is not a directory is not a directory; a last segment "", "." or ".."   *)
(* is an invalid argument; a name that is in the map is exists and the     *)
(* entry stays.  After a success the map has the node under the name, all  *)
(* else as before, and get(path) returns the node; after a failure every   *)
(* directory is as it was.                                                 *)
(***************************************************************************)
C16_Attach ==
    [][ last'.op = "attach"
        => LET name == AttachPath[Len(AttachPath)]
               d    == AttachParent.n
               node == last'.out[1]
           IN  IF AttachParent.err # "ok" THEN (last'.res = AttachParent.err /\ nodes' = nodes)
               ELSE IF nodes[d].kind # "dir" THEN (last'.res = "notdir" /\ nodes' = nodes)
               ELSE IF name \in {"", ".", ".."} THEN (last'.res = "inval" /\ nodes' = nodes)
               ELSE IF name \in DOMAIN nodes[d].map THEN (last'.res = "exist" /\ nodes' = nodes)
               ELSE /\ last'.res = "ok"
                    /\ node \notin DOMAIN nodes
                    /\ DOMAIN nodes' = DOMAIN nodes \cup {node}
                    /\ nodes'[d].map = Ext(nodes[d].map, name, node)
                    /\ \A n \in DOMAIN nodes \ {d} : nodes'[n] = nodes[n]
                    /\ Get([nodes |-> nodes'], last'.at, last'.path) = [err |-> "ok", n |-> node] ]_vars

\* a file was attached at "a/../b": it is "b" in the directory attach was called on
C16_Witness ==
    /\ last.op = "attach"
    /\ last.res = "ok"
    /\ last.path = <<"a", "..", "b">>
    /\ nodes[last.at].map["b"] = last.out[1]
    /\ nodes[last.out[1]].kind = "file"

\* the bytes of the buffers, one after the other
RECURSIVE Flatten(_)
Flatten(bufs) == IF bufs = << >> THEN << >> ELSE Head(bufs) \o Flatten(Tail(bufs))

\* the sum of the sizes
RECURSIVE SumOf(_)
SumOf(sizes) == IF sizes = << >> THEN 0 ELSE Head(sizes) + SumOf(Tail(sizes))

\* the content from byte k on
From(content, k) == SubSeq(content, k + 1, Len(content))

\* the handle of the call that has just returned, as it was when called
Caller == last'.arg[1]

\* a write_vectored of B on an empty file through a handle at cursor 0 (any
\* such handle, or only one without APPEND) leaves the file holding B and
\* the handle at len(B)
WritesFresh(anyWriter) ==
    (/\ last'.op = "write_vectored" /\ last'.res = "ok"
     /\ nodes[last'.at].data = << >>
     /\ Caller.pos = 0
     /\ anyWriter \/ "APPEND" \notin Caller.fl)
    => /\ nodes'[last'.at].data = Flatten(last'.arg[2])
       /\ handles' = Moved(Caller, Len(Flatten(last'.arg[2])))
       /\ last'.out = <<Len(Flatten(last'.arg[2]))>>

\* a read_vectored through a handle at cursor 0 into buffers as large as the
\* content returns the content and leaves the handle at its end; a
\* read_vectored_at from k within the content returns the content from k
\* on, where the handle's cursor is whatever it was
ReadsBack ==
    /\ (/\ last'.op = "read_vectored" /\ last'.res # "io"
        /\ Caller.pos = 0
        /\ SumOf(last'.arg[2]) = Len(nodes[last'.at].data))
       => /\ last'.res = "ok"
          /\ last'.out = <<Len(nodes[last'.at].data), nodes[last'.at].data>>
          /\ handles' = Moved(Caller, Len(nodes[last'.at].data))
          /\ nodes' = nodes
    /\ (/\ last'.op = "read_vectored_at" /\ last'.res # "io"
        /\ last'.arg[3] <= Len(nodes[last'.at].data)
        /\ SumOf(last'.arg[2]) >= Len(nodes[last'.at].data) - last'.arg[3])
       => /\ last'.res = "ok"
          /\ last'.out[2] = From(nodes[last'.at].data, last'.arg[3])
          /\ handles' = handles
          /\ nodes' = nodes

(* C17: for any bytes B and any split of B into buffers, write_vectored on *)
(* an empty file through a fresh handle without APPEND leaves the content  *)
(* equal to B and the writer's cursor at len(B); a fresh reader's          *)
(* read_vectored with matching buffer sizes returns B and leaves its       *)
(* cursor at len(B); read_vectored_at(bufs, k) with k <= len(B) returns    *)
(* B[k..] whatever the cursor is.                                          *)
C17_RoundTrip == [][WritesFresh(FALSE) /\ ReadsBack]_vars

(* C17 as stated, for every writer: also one whose flags hold APPEND is    *)
(* left at len(B).                                                         *)
C17_RoundTripAnyWriter == [][WritesFresh(TRUE) /\ ReadsBack]_vars

\* B = 1, 2 was written as two buffers on the empty file and the writer is at 2
C17_Witness ==
    /\ last.op = "write_vectored" /\ last.res = "ok"
    /\ last.arg = << [last.arg[1] EXCEPT !.pos = 0], << <<1>>, <<2>> >> >>
    /\ "APPEND" \notin last.arg[1].fl
    /\ nodes[last.at].data = <<1, 2>>
    /\ \E h \in DOMAIN handles : h.node = last.at /\ h.wr /\ h.pos = 2
    /\ \E h \in DOMAIN handles : h.node = last.at /\ h.rd /\ ~h.wr /\ h.pos = 0

\* old with the bytes B laid over it from position pos on, and zeros between
\* the end of old and pos
Overlay(old, pos, B) ==
    [i \in 1..(IF pos + Len(B) > Len(old) THEN pos + Len(B) ELSE Len(old)) |->
        IF i > pos /\ i <= pos + Len(B) THEN B[i - pos]
        ELSE IF i <= Len(old) THEN old[i] ELSE 0]

(* C18: a write_vectored through a handle whose flags contain APPEND       *)
(* leaves the old content followed by the buffers in order, whatever the   *)
(* cursor is, and no cursor moves; without APPEND the buffers are laid     *)
(* over the content from the cursor on, a gap beyond the old end is filled *)
(* with zeros, and the cursor advances by the bytes written.               *)
C18_Append ==
    [][(last'.op = "write_vectored" /\ last'.res = "ok")
       => /\ last'.out = <<Len(Flatten(last'.arg[2]))>>
          /\ "APPEND" \in Caller.fl
             => /\ nodes'[last'.at].data = nodes[last'.at].data \o Flatten(last'.arg[2])
                /\ handles' = handles
          /\ "APPEND" \notin Caller.fl
             => /\ nodes'[last'.at].data =
                      IF last'.arg[2] = << >> THEN nodes[last'.at].data
                      ELSE Overlay(nodes[last'.at].data, Caller.pos, Flatten(last'.arg[2]))
                /\ handles' = Moved(Caller, Caller.pos + Len(Flatten(last'.arg[2])))]_vars

\* the APPEND writer, its cursor at 0, wrote 1 and 2 behind the 1 the file held
C18_Witness ==
    /\ last.op = "write_vectored" /\ last.res = "ok"
    /\ "APPEND" \in last.arg[1].fl /\ last.arg[1].pos = 0
    /\ last.arg[2] = << <<1>>, <<2>> >>
    /\ nodes[last.at].data = <<1, 1, 2>>
    /\ last.arg[1] \in DOMAIN handles

(* C19: write_vectored_at(bufs, offset) lays the buffers over the content  *)
(* from offset on, with zeros in a gap beyond the old end, through a       *)
(* handle with APPEND as through one without, and leaves every handle's    *)
(* cursor and flags as they were; read_vectored_at and peek change neither *)
(* a cursor nor a content.                                                 *)
C19_Positional ==
    [][/\ (last'.op = "write_vectored_at" /\ last'.res = "ok")
          => /\ nodes'[last'.at].data =
                   IF last'.arg[2] = << >> THEN nodes[last'.at].data
                   ELSE Overlay(nodes[last'.at].data, last'.arg[3], Flatten(last'.arg[2]))
             /\ handles' = handles
       /\ last'.op \in {"read_vectored_at", "peek"}
          => handles' = handles /\ nodes' = nodes]_vars

\* the APPEND writer wrote 1 at offset 1 of the empty file, and its cursor is
\* where it was, with a reader's
C19_Witness ==
    /\ last.op = "write_vectored_at" /\ last.res = "ok"
    /\ "APPEND" \in last.arg[1].fl
    /\ last.arg[2] = << <<1>> >> /\ last.arg[3] = 1
    /\ nodes[last.at].data = <<0, 1>>
    /\ last.arg[1] \in DOMAIN handles
    /\ \E h \in DOMAIN handles : h.node = last.at /\ h.rd /\ h.pos = 0

\* the entry a set_times with a path of one segment is about
TimesEntry ==
    CASE last'.path[1] = "."  -> last'.at
      [] last'.path[1] = ".." -> IF nodes[last'.at].parent # 0
                                 THEN nodes[last'.at].parent ELSE last'.at
      [] OTHER                -> nodes[last'.at].map[last'.path[1]]

(* C20: set_times(n, atime, mtime) through a directory handle, n the name  *)
(* of an existing child (a regular file, a directory or a pseudo-file) or  *)
(* "." or "..", succeeds, and afterwards the entry's access and modify     *)
(* times are the ones asked for.                                           *)
C20_SetTimes ==
    [][(/\ last'.op = "set_times"
        /\ Len(last'.path) = 1
        /\ last'.path[1] \in {".", ".."} \cup DOMAIN nodes[last'.at].map)
       => /\ last'.res = "ok"
          /\ last'.arg[1] # << >> => nodes'[TimesEntry].access = last'.arg[1][1]
          /\ last'.arg[2] # << >> => nodes'[TimesEntry].modify = last'.arg[2][1]]_vars

\* the stat st is the one the claim gives for node n: the ids of n, the
\* type Directory for a directory, the size 0 for a directory and a
\* pseudo-file and the length of the content for a regular file
StatAsClaimed(st, n) ==
    /\ st.device_id = devs[inodes[n].dev].id
    /\ st.inode = inodes[n].id
    /\ nodes[n].kind = "dir" => st.filetype = "Directory"
    /\ st.size = IF nodes[n].kind = "file" THEN Len(nodes[n].data) ELSE 0

(* C21: for an existing entry, get_filestat on its handle and              *)
(* get_path_filestat of its name on its parent succeed and report the      *)
(* entry's device id and inode id (the inode id readdir shows), the type   *)
(* Directory for a directory, and as size the content length for a regular *)
(* file and 0 for a directory and a pseudo-file.                           *)
C21_Filestat ==
    [][/\ last'.op = "get_filestat"
          => last'.res = "ok" /\ StatAsClaimed(last'.out[1], last'.at)
       /\ (/\ last'.op = "get_path_filestat"
           /\ Len(last'.path) = 1
           /\ last'.path[1] \in DOMAIN nodes[last'.at].map)
          => /\ last'.res = "ok"
             /\ StatAsClaimed(last'.out[1], nodes[last'.at].map[last'.path[1]])]_vars

(* C22: Data::set_times changes the access time only if atime is given and *)
(* the modify time only if mtime is given, never the create time or the    *)
(* content; with None and None it changes nothing; an Absolute time is     *)
(* taken as given, and when both ask for SymbolicNow both get the one      *)
(* instant the clock read.                                                 *)
C22_DataSetTimes ==
    [][last'.op = "data_set_times"
       => /\ nodes'[last'.at].create = nodes[last'.at].create
          /\ nodes'[last'.at].data = nodes[last'.at].data
          /\ nodes'[last'.at].map = nodes[last'.at].map
          /\ last'.arg[1].spec = "None" => nodes'[last'.at].access = nodes[last'.at].access
          /\ last'.arg[2].spec = "None" => nodes'[last'.at].modify = nodes[last'.at].modify
          /\ (last'.arg[1].spec = "None" /\ last'.arg[2].spec = "None") => nodes' = nodes
          /\ last'.arg[1].spec = "Absolute" => nodes'[last'.at].access = last'.arg[1].t
          /\ last'.arg[2].spec = "Absolute" => nodes'[last'.at].modify = last'.arg[2].t
          /\ (last'.arg[1].spec = "SymbolicNow" /\ last'.arg[2].spec = "SymbolicNow")
             => /\ nodes'[last'.at].access = nodes'[last'.at].modify
                /\ nodes'[last'.at].access = last'.arg[3]]_vars

\* the access time alone was asked for, a time the data had in none of its
\* fields, and it is the only one that changed
C22_Witness ==
    /\ last.op = "data_set_times"
    /\ last.arg[1] = [spec |-> "Absolute", t |-> 2]
    /\ last.arg[2].spec = "None"
    /\ nodes[last.at].access = 2
    /\ nodes[last.at].modify = 1
    /\ nodes[last.at].create = 1

\* the pool has handed out ids and none of them was dropped
NoDrops(pool) == pool.set = 0..(pool.next - 1)

\* the inodes a step dropped, and the device a step made or dropped an inode on
Dropped == (DOMAIN inodes) \ (DOMAIN inodes')

Touched == {inodes[i].dev : i \in Dropped} \cup {inodes'[i].dev : i \in (DOMAIN inodes') \ (DOMAIN inodes)}

(* C23: in ledger/src/lib.rs the set a pool records as in use is at every  *)
(* moment the set of ids of its live DeviceIds (of the live InodeIds of    *)
(* the device), hence empty on a fresh pool and again when every id has    *)
(* been dropped; on a pool with no drops so far the k-th allocation        *)
(* returns k-1; and making or dropping an inode on one device changes      *)
(* neither the ids another device hands out nor those the ledger does.     *)
C23_Bookkeeping ==
    [][copy = "ledger"
       => /\ ledger.set = LiveDeviceIds
          /\ \A d \in DOMAIN devs : devs[d].set = LiveInodeIds(d)
          /\ ledger'.set = {devs'[d].id : d \in DOMAIN devs'}
          /\ \A d \in DOMAIN devs' : devs'[d].set = {inodes'[i].id : i \in InodesOf(inodes', d)}
          /\ (last'.op = "create_device" /\ NoDrops(ledger))
             => last'.id = Cardinality(LiveDeviceIds)
          /\ (last'.op = "create_inode" /\ NoDrops(devs[last'.obj]))
             => last'.id = Cardinality(LiveInodeIds(last'.obj))
          /\ last'.op \in {"create_inode", "drop_inode"}
             => /\ LedgerCandidates(ledger') = LedgerCandidates(ledger)
                /\ \A d \in ((DOMAIN devs) \cap (DOMAIN devs')) \ Touched :
                      devs'[d] = devs[d]]_vars

\* both devices and the inode that were made have been dropped, and the
\* ledger records no id
C23_Witness ==
    /\ copy = "ledger"
    /\ last.op \in {"drop_inode", "drop_device"}
    /\ ledger = [set |-> {}, next |-> 2]
    /\ devs = << >>
    /\ inodes = << >>

\* the tags generate and trust have a type for
NineTags == {<<0, 0, 0, k>> : k \in 0..8}

\* the overlay a factory call was made in, and the factory's queue
KeysDir == nodes[last'.at].parent

\* the call made one directory, named by a uuid not seen before, that holds
\* exactly the files, and pushed that uuid to the queue; nothing else in the
\* overlay changed
MadeKey(files) ==
    /\ last'.res = "ok"
    /\ last'.name \notin IssuedUuids
    /\ last'.name \notin DOMAIN nodes[KeysDir].map
    /\ DOMAIN nodes'[KeysDir].map = DOMAIN nodes[KeysDir].map \cup {last'.name}
    /\ \A n \in DOMAIN nodes[KeysDir].map : nodes'[KeysDir].map[n] = nodes[KeysDir].map[n]
    /\ nodes'[nodes'[KeysDir].map[last'.name]].kind = "dir"
    /\ DOMAIN nodes'[nodes'[KeysDir].map[last'.name]].map = files
    /\ \A f \in files : nodes'[nodes'[nodes'[KeysDir].map[last'.name]].map[f]].kind = f
    /\ nodes'[last'.at].data = Append(nodes[last'.at].data, last'.name)

\* the call was refused with err and changed nothing
RefusedWith(err) == last'.res = err /\ nodes' = nodes /\ handles' = handles

(* C24: a write to generate that is not exactly one buffer of 4 bytes      *)
(* returns invalid argument, and one of 4 bytes that are none of the nine  *)
(* tags returns illegal byte sequence, both leaving overlay and queue as   *)
(* they were; a write of one of the nine tags makes one new directory,     *)
(* named by a new uuid, that holds exactly share, sign and verify when it  *)
(* is in the overlay, and appends the uuid to the queue of generate.       *)
C24_GenerateWrite ==
    [][last'.op = "generate_write"
       => CASE Len(last'.arg[2]) # 1 -> RefusedWith("inval")
            [] Len(last'.arg[2]) = 1 /\ Len(last'.arg[2][1]) # 4 -> RefusedWith("inval")
            [] Len(last'.arg[2]) = 1 /\ Len(last'.arg[2][1]) = 4 /\ last'.arg[2][1] \notin NineTags
                  -> RefusedWith("ilseq")
            [] OTHER -> MadeKey({"share", "sign", "verify"})]_vars

\* the second key was generated, with an RSA tag, and both uuids are queued
C24_Witness ==
    /\ last.op = "generate_write" /\ last.res = "ok"
    /\ last.arg[2] = <<RS256>>
    /\ last.name = Uuids[2]
    /\ nodes[last.at].data = <<Uuids[1], Uuids[2]>>
    /\ DOMAIN nodes[nodes[nodes[last.at].parent].map[Uuids[2]]].map = {"share", "sign", "verify"}

(* C25: a write to trust of fewer than 4 or more than 4096 bytes in all    *)
(* returns invalid argument, one with an unknown tag or with bytes that    *)
(* are no encoding of a key illegal byte sequence, one with an RSA key of  *)
(* fewer than 2048 bits permission denied, each leaving overlay and queue  *)
(* as they were; a write of a tag and a key makes one new directory named  *)
(* by a new uuid that holds share and verify and no sign, and appends the  *)
(* uuid to the queue of trust.                                             *)
C25_TrustWrite ==
    [][last'.op = "trust_write"
       => CASE SumOf(last'.arg[2].lens) < 4 \/ SumOf(last'.arg[2].lens) > 4096
                  -> RefusedWith("inval")
            [] SumOf(last'.arg[2].lens) \in 4..4096 /\ last'.arg[2].tag \notin NineTags
                  -> RefusedWith("ilseq")
            [] SumOf(last'.arg[2].lens) \in 4..4096 /\ last'.arg[2].tag \in NineTags
                  /\ last'.arg[2].body = "malformed"
                  -> RefusedWith("ilseq")
            [] SumOf(last'.arg[2].lens) \in 4..4096 /\ last'.arg[2].tag \in NineTags
                  /\ last'.arg[2].body = "weak"
                  -> RefusedWith(IF last'.arg[2].tag[4] <= 5 THEN "perm" ELSE "ilseq")
            [] OTHER -> MadeKey({"share", "verify"})]_vars

\* a key was trusted after another, and trust was refused a weak RSA key in
\* between or before
C25_Witness ==
    /\ last.op = "trust_write" /\ last.res = "ok"
    /\ last.arg[2] = TrustInput(<<4, 65>>, ES256, "key")
    /\ last.name = Uuids[2]
    /\ nodes[last.at].data = <<Uuids[1], Uuids[2]>>
    /\ DOMAIN nodes[nodes[nodes[last.at].parent].map[Uuids[2]]].map = {"share", "verify"}

\* a read of share: the whole payload or message too big, by the capacity
ShareAtomic ==
    /\ nodes' = nodes /\ handles' = handles
    /\ IF SumOf(last'.arg[2]) < nodes[last'.at].data.len
       THEN last'.res = "toobig" /\ last'.out = << >>
       ELSE last'.res = "ok" /\ last'.out = <<nodes[last'.at].data.len, nodes[last'.at].data>>

\* the payload of a share stays what it was when the key was made
ShareKept == \A n \in DOMAIN nodes : nodes[n].kind = "share" => nodes'[n] = nodes[n]

(* C26: a read of share returns the whole payload stored, or, when the     *)
(* buffers hold fewer bytes than the payload, message too big, and changes *)
(* nothing, so that a read repeated returns the same payload; a read of    *)
(* generate or trust, with a uuid queued, into buffers that hold fewer     *)
(* than 36 bytes returns message too big and leaves the queue as it was.   *)
C26_Atomic ==
    [][/\ last'.op = "share_read" => ShareAtomic
       /\ last'.op # "none" => ShareKept
       /\ (last'.op = "factory_read" /\ SumOf(last'.arg[2]) < 36 /\ nodes[last'.at].data # << >>)
             => RefusedWith("toobig")]_vars

(* C26 as stated: every read of generate or trust into buffers that hold   *)
(* fewer than 36 bytes returns message too big.                            *)
C26_AtomicAnyQueue ==
    [][/\ last'.op = "share_read" => ShareAtomic
       /\ (last'.op = "factory_read" /\ SumOf(last'.arg[2]) < 36) => RefusedWith("toobig")]_vars

\* the share of an RSA key was read whole into two buffers
C26_Witness ==
    /\ last.op = "share_read" /\ last.res = "ok"
    /\ last.arg[2] = <<200, 71>>
    /\ nodes[last.at].data.tag = RS256
    /\ last.out = <<nodes[last.at].data.len, nodes[last.at].data>>

\* the uuids waiting in the queue of a factory
Queued(n) == {nodes[n].data[i] : i \in 1..Len(nodes[n].data)}

\* the uuids that were issued and wait in no queue: the ones read
Returned == IssuedUuids \ UNION {Queued(n) : n \in Factories}

\* every queue holds issued uuids, each once, and no uuid waits in two
QueuesDistinct ==
    /\ \A n \in Factories :
          /\ Queued(n) \subseteq IssuedUuids
          /\ Cardinality(Queued(n)) = Len(nodes[n].data)
    /\ \A n, m \in Factories : n # m => Queued(n) \cap Queued(m) = {}

\* the queue of factory n after the step, as a set
QueuedAfter(n) == {nodes'[n].data[i] : i \in 1..Len(nodes'[n].data)}

\* what a step does to the queues
QueueStep ==
    /\ \A n \in Factories \ {last'.at} : nodes'[n] = nodes[n]
    /\ CASE last'.op = "factory_read" /\ last'.res = "ok" ->
               /\ last'.name \in Queued(last'.at)
               /\ last'.name \notin Returned
               /\ QueuedAfter(last'.at) = Queued(last'.at) \ {last'.name}
               /\ Len(nodes'[last'.at].data) = Len(nodes[last'.at].data) - 1
               /\ issued' = issued
         [] last'.op = "factory_read" /\ last'.res # "ok" ->
               /\ nodes' = nodes /\ issued' = issued
               /\ last'.res = (IF nodes[last'.at].data = << >> THEN "wouldblk" ELSE "toobig")
               /\ last'.name = ""
         [] last'.op \in {"generate_write", "trust_write"} /\ last'.res = "ok" ->
               /\ issued' = issued + 1
               /\ last'.name = Uuids[issued']
               /\ nodes'[last'.at].data = Append(nodes[last'.at].data, last'.name)
         [] OTHER ->
               /\ issued' = issued
               /\ \A n \in Factories : nodes'[n] = nodes[n]

(* C27: over every interleaving of writes and reads on the handles of a    *)
(* factory, a uuid enters the queue once, by the write that made it, and   *)
(* leaves it by one read that returns it; no read returns a uuid that a    *)
(* read returned before; a read refused for its buffers leaves the queue   *)
(* as it was, and a read of an empty queue returns would block.            *)
C27_ReadOnce ==
    /\ [](QueuesDistinct)
    /\ [][QueueStep]_vars
    /\ [][Returned \subseteq Returned']_vars

\* through two handles on generate two keys were made, and the second read
\* returned the uuid made first
C27_Witness ==
    /\ last.op = "factory_read" /\ last.res = "ok"
    /\ nodes[last.at].kind = "generate"
    /\ issued = 2
    /\ last.name = Uuids[1]
    /\ nodes[last.at].data = << >>
    /\ handles[last.arg[1]] = 2

\* the read and write a role opens with
RoleMode(kind) ==
    CASE kind \in {"generate", "trust", "sign"} -> [rd |-> TRUE, wr |-> TRUE]
      [] kind = "share" -> [rd |-> TRUE, wr |-> FALSE]
      [] kind = "verify" -> [rd |-> FALSE, wr |-> TRUE]

\* the node an open_file was asked to open, when the name is bound
RoleNode == nodes[last'.dir].map[last'.name]

OpensRole ==
    /\ last'.op = "open_file"
    /\ last'.dir \in DOMAIN nodes
    /\ last'.name \in DOMAIN nodes[last'.dir].map
    /\ nodes[RoleNode].kind \in {"generate", "trust", "sign", "share", "verify"}

(* C28: generate, trust and sign open only with read and write, share only *)
(* with read and without write, verify only with write and without read,   *)
(* each only with no fd flags; another combination of read and write       *)
(* returns permission denied, an open as a directory returns not a         *)
(* directory, and an open refused leaves no handle.                        *)
C28_Roles ==
    [][OpensRole =>
         /\ last'.res = "ok" <=>
               /\ "DIRECTORY" \notin last'.ofl
               /\ [rd |-> last'.rd, wr |-> last'.wr] = RoleMode(nodes[RoleNode].kind)
               /\ last'.fl = {}
         /\ "DIRECTORY" \in last'.ofl => last'.res = "notdir"
         /\ ("DIRECTORY" \notin last'.ofl
               /\ [rd |-> last'.rd, wr |-> last'.wr] # RoleMode(nodes[RoleNode].kind))
               => last'.res = "perm"
         /\ last'.res # "ok" => handles' = handles /\ nodes' = nodes
         /\ last'.res = "ok" =>
               \E h \in DOMAIN handles' :
                  /\ h.node = RoleNode /\ h.rd = last'.rd /\ h.wr = last'.wr
                  /\ handles' = HAdd(handles, h)]_vars

\* verify of a generated key was opened for write alone
C28_Witness ==
    /\ last.op = "open_file" /\ last.res = "ok"
    /\ last.name = "verify" /\ ~last.rd /\ last.wr
    /\ \E h \in DOMAIN handles : nodes[h.node].kind = "verify" /\ ~h.rd /\ h.wr
    /\ "sign" \in DOMAIN nodes[last.dir].map

\* the handle a call was made on, as it was before the call
Callee == last'.arg[1]

\* the handle but for its digest
SameOpen(h, g) == [h EXCEPT !.hash = << >>] = [g EXCEPT !.hash = << >>]

(* C29: the digest of a sign handle is empty when the handle is opened and *)
(* a write_vectored on the handle appends its bytes, in order, to it and   *)
(* changes no other handle; read_vectored_at with offset u64::MAX returns  *)
(* a signature by the key over the digest as it stands, and leaves it, so  *)
(* that later writes go on from it; it returns message too big when the    *)
(* buffers hold fewer bytes than the signature, and invalid argument for   *)
(* any other offset.                                                       *)
C29_Sign ==
    [][/\ (last'.op = "open_file" /\ last'.res = "ok")
             => \E h \in DOMAIN handles' : h.hash = << >> /\ handles' = HAdd(handles, h)
       /\ (last'.op = "hash_write" /\ nodes[last'.at].kind = "sign")
             => /\ last'.res = "ok"
                /\ \E h \in DOMAIN handles' :
                      /\ SameOpen(h, Callee)
                      /\ h.hash = Callee.hash \o Flatten(last'.arg[2])
                      /\ handles' = HAdd(HDel(handles, Callee), h)
                /\ nodes' = nodes
       /\ last'.op = "sign_read_at"
             => /\ handles' = handles /\ nodes' = nodes
                /\ CASE last'.arg[3] # U64Max -> last'.res = "inval"
                     [] last'.arg[3] = U64Max /\ SumOf(last'.arg[2]) < 64
                           -> last'.res = "toobig"
                     [] OTHER -> /\ last'.res = "ok"
                                 /\ last'.out[1].msg = Callee.hash
                                 /\ last'.out[1].pair = nodes[last'.at].data.pair
                                 /\ last'.out[1].len = 64
       /\ last'.op # "hash_write"
             => \A h \in DOMAIN handles' : h \in DOMAIN handles \/ h.hash = << >>]_vars

\* a signature over two bytes, written in two writes, was read from a
\* handle while another handle of the same sign file holds another digest
C29_Witness ==
    /\ last.op = "sign_read_at" /\ last.res = "ok"
    /\ last.arg[1].hash = <<1, 2>>
    /\ last.out[1].msg = <<1, 2>>
    /\ \E g \in DOMAIN handles : g.node = last.at /\ g.hash = <<2>>

\* the signature submitted is one by the key of the verify file over the
\* bytes written to the handle so far
Verifies ==
    /\ last'.arg[2][1].pair = nodes[last'.at].data.pair
    /\ last'.arg[2][1].alg = nodes[last'.at].data.alg
    /\ last'.arg[2][1].msg = Callee.hash

(* C30: write_vectored_at on a verify handle with offset u64::MAX and one  *)
(* buffer checks the buffer as a signature over the bytes written so far;  *)
(* when it verifies the call succeeds and the digest of the handle starts  *)
(* again, so that after a write of M a signature over M alone verifies; a  *)
(* signature that does not verify returns illegal byte sequence; another   *)
(* offset, or more or fewer buffers than one, returns invalid argument.    *)
(* (Bytes that are no signature of the curve are only required to fail.)   *)
C30_Verify ==
    [][last'.op = "verify_write_at"
         => CASE last'.arg[3] # U64Max \/ Len(last'.arg[2]) # 1 ->
                    last'.res = "inval" /\ handles' = handles
              [] last'.arg[3] = U64Max /\ Len(last'.arg[2]) = 1 /\ last'.arg[2][1].len # 64 ->
                    last'.res # "ok" /\ handles' = handles
              [] last'.arg[3] = U64Max /\ Len(last'.arg[2]) = 1 /\ last'.arg[2][1].len = 64
                    /\ Verifies ->
                    /\ last'.res = "ok"
                    /\ handles' = HAdd(HDel(handles, Callee), [Callee EXCEPT !.hash = << >>])
              [] OTHER -> last'.res = "ilseq" /\ handles' = handles]_vars

\* sig is a signature of 64 bytes by the holder of key over the message M
Genuine(sig, key, M) ==
    sig.len = 64 /\ sig.alg = key.alg /\ sig.pair = key.pair /\ sig.msg = M

\* the verify file beside the sign file a call was made on
VerifyBeside == nodes[nodes[last'.at].parent].map["verify"]

\* what sign returns for M is genuine for the verify file of the directory
SignsForVerify ==
    (last'.op = "sign_read_at" /\ last'.res = "ok")
       => Genuine(last'.out[1], nodes[VerifyBeside].data, Callee.hash)

\* a verify file of generate has the key of the sign file beside it, a
\* verify file of trust the key that was written
KeysPaired ==
    \A d \in DOMAIN nodes :
       (nodes[d].kind = "dir" /\ "verify" \in DOMAIN nodes[d].map)
          => IF "sign" \in DOMAIN nodes[d].map
             THEN nodes[nodes[d].map["sign"]].data = nodes[nodes[d].map["verify"]].data
             ELSE nodes[nodes[d].map["verify"]].data.pair = Foreign

Under(h) == Reach(nodes, {h.root})

\* the directories on the way from node n up to the root r (n itself left
\* out), by the parent links
RECURSIVE Ancestors(_, _)
Ancestors(n, r) ==
    IF n = r \/ n \notin DOMAIN nodes \/ nodes[n].parent \notin DOMAIN nodes THEN {}
    ELSE {nodes[n].parent} \cup Ancestors(nodes[n].parent, r)

(* C32: while a handle is open, the root it was opened under is alive and  *)
(* is a root; and when the node of the handle is attached under that root, *)
(* every node from it up to the root is alive, has its parent link to the  *)
(* directory whose map holds it, and ".." of the node is that directory,   *)
(* whatever the owner and the other handles have dropped.                  *)
C32_KeptAlive ==
    \A h \in DOMAIN handles :
       /\ h.root \in DOMAIN nodes
       /\ nodes[h.root].parent = 0
       /\ h.node \in DOMAIN nodes
       /\ h.node \in Under(h) =>
             /\ h.root \in Ancestors(h.node, h.root) \cup {h.node}
             /\ \A m \in (Ancestors(h.node, h.root) \cup {h.node}) \ {h.root} :
                   /\ nodes[m].parent \in DOMAIN nodes
                   /\ m \in Children(nodes, nodes[m].parent)
                   /\ Prev(World, m) = nodes[m].parent

\* the one handle left is on a/a, and the owner has dropped the root and a
\* and keeps a/a alone
C32_Witness ==
    /\ last.op = "release"
    /\ \E h \in DOMAIN handles :
          /\ DOMAIN handles = {h} /\ handles[h] = 1
          /\ h.node \in Under(h)
          /\ nodes[h.node].parent \notin {0, h.root}
          /\ held = {h.node}

\* the calls that change maps, contents, queues or cursors
Mutating ==
    \/ last'.op \in {"attach", "create_dir", "remove_dir", "unlink_file", "set_filestat_size",
                     "write_vectored", "write_vectored_at", "generate_write", "trust_write"}
    \/ last'.op = "open_file" /\ last'.ofl \cap {"CREATE", "TRUNCATE"} # {}

(* C33: a call of attach, create_dir, open_file with CREATE or TRUNCATE,   *)
(* remove_dir, unlink_file, set_filestat_size, a write to a file or a      *)
(* write to a factory that returns an error leaves every map of a          *)
(* directory, every content of a file, every queue and every cursor of a   *)
(* handle as it was before the call.                                       *)
C33_ErrorsKeep ==
    [][(Mutating /\ last'.res # "ok") => (nodes' = nodes /\ handles' = handles)]_vars

\* a truncating open of a file was refused while the file has content, a
\* key waits in the queue and the directory a has an entry
C33_Witness ==
    /\ last.op = "open_file" /\ "TRUNCATE" \in last.ofl /\ last.res # "ok"
    /\ \E n \in DOMAIN nodes : nodes[n].kind = "file" /\ nodes[n].data # << >>
    /\ \E n \in DOMAIN nodes : nodes[n].kind = "generate" /\ nodes[n].data # << >>

\* the tasks whose call of name in d has returned res
Returned34(d, name, res) ==
    {t \in Tasks : last[t].pc = "done" /\ last[t].dir = d /\ last[t].name = name /\ last[t].res = res}

(* C34: when several tasks call open_file with CREATE | EXCLUSIVE,          *)
(* create_dir or attach for the same missing name of one directory at the  *)
(* same time, exactly one succeeds and its node is the one in the map,     *)
(* every other call returns exist, and no step replaces an entry that is   *)
(* already in a map.                                                       *)
C34_Atomic ==
    /\ [](\A d \in DOMAIN nodes, name \in RaceNames :
            /\ Cardinality(Returned34(d, name, "ok")) <= 1
            /\ \A t \in Returned34(d, name, "ok") :
                  name \in DOMAIN nodes[d].map /\ nodes[d].map[name] = last[t].made
            /\ Returned34(d, name, "exist") # {} => Returned34(d, name, "ok") # {}
            /\ \A t \in Tasks : last[t].pc = "done" => last[t].res \in {"ok", "exist"})
    /\ [][\A d \in DOMAIN nodes : \A name \in DOMAIN nodes[d].map :
            /\ d \in DOMAIN nodes'
            /\ name \in DOMAIN nodes'[d].map
            /\ nodes'[d].map[name] = nodes[d].map[name]]_vars

\* the three calls were made of one name before any took the lock: one
\* has succeeded, the two others returned exist
C34_Witness ==
    \E d \in DOMAIN nodes :
        /\ Cardinality(Returned34(d, "a", "ok")) = 1
        /\ Cardinality(Returned34(d, "a", "exist")) = 2
        /\ {last[t].op : t \in Tasks} = RaceOps

\* the tasks that write, those of them that have returned, and the orders
\* a set of tasks can come in
Writers == {t \in Tasks : last[t].op = "write_vectored"}

Wrote == {t \in Writers : last[t].pc = "done"}

Orders(S) == {o \in [1..Cardinality(S) -> S] : \A i, j \in 1..Cardinality(S) : o[i] = o[j] => i = j}

\* the content after the calls of o were made one after the other on content:
\* with APPEND every buffer of a call goes to the end, without from the
\* start of the file on (the handle is fresh)
RECURSIVE Serial(_, _)
Serial(content, o) ==
    IF o = << >> THEN content
    ELSE LET c == last[Head(o)]
         IN  Serial(IF "APPEND" \in c.h.fl THEN content \o Concat(c.arg)
                    ELSE Concat(c.arg) \o SubSeq(content, Len(Concat(c.arg)) + 1, Len(content)),
                    Tail(o))

\* the contents a file of FileData can have between calls of the tasks in S
Serials(S) == UNION {{Serial(FileData, o) : o \in Orders(R)} : R \in SUBSET S}

(* C35: concurrent write_vectored calls of handles of one file are applied  *)
(* each as one uninterrupted unit: whenever nobody is writing, the content  *)
(* is what the calls that have returned give when made one after the other  *)
(* in some order; two concurrent APPEND writes of X and Y leave the content *)
(* ending in XY or YX; and what a reader got is what it reads from the      *)
(* content between two calls, never from a write applied in part.           *)
C35_Serialized ==
    /\ \A f \in DOMAIN nodes : nodes[f].kind = "file" /\ (\A t \in Writers : last[t].pc # "held") =>
          \E o \in Orders(Wrote) : nodes[f].data = Serial(FileData, o)
    /\ \A f \in DOMAIN nodes, t, u \in Wrote :
          /\ nodes[f].kind = "file" /\ Wrote = Writers /\ Wrote = {t, u} /\ t # u
          /\ "APPEND" \in last[t].h.fl /\ "APPEND" \in last[u].h.fl
          => nodes[f].data \in {FileData \o Concat(last[t].arg) \o Concat(last[u].arg),
                                FileData \o Concat(last[u].arg) \o Concat(last[t].arg)}
    /\ \A t \in Tasks : last[t].op = "read_vectored" /\ last[t].pc = "done" =>
          \E c \in Serials(Writers) : last[t].out = ReadBufs(c, 0, last[t].arg).data

\* two APPEND writes of different bytes and a read ran at the same time
\* and have returned
C35_Witness ==
    /\ \A t \in Tasks : last[t].pc = "done"
    /\ \E t, u \in Wrote : /\ last[t].arg # last[u].arg
                           /\ "APPEND" \in last[t].h.fl /\ "APPEND" \in last[u].h.fl
    /\ \E t \in Tasks : last[t].op = "read_vectored" /\ Len(last[t].out) > 1

\* a task that waits for a lock while it has guards has one guard, that of
\* the directory whose map holds the node it waits for
ParentThenChild ==
    \A t \in Tasks : last[t].want # NoWant /\ last[t].has # {} =>
        \E g \in last[t].has :
            /\ last[t].has = {g}
            /\ g[1] # last[t].want[1]
            /\ nodes[last[t].want[1]].parent = g[1]
            /\ \E name \in DOMAIN nodes[g[1]].map : nodes[g[1]].map[name] = last[t].want[1]

KeyDirs ==
    UNION {{name \in DOMAIN nodes[d].map : nodes[nodes[d].map[name]].kind = "dir"} :
             d \in {nodes[f].parent : f \in Factories}}

(* C37: whatever await a task writing to generate or trust is dropped at,   *)
(* every key directory of the overlay has its uuid in the queue of a        *)
(* factory, or its write is still running and about to enqueue it.          *)
C37_Enqueued ==
    \A name \in KeyDirs :
        \/ \E f \in Factories : \E i \in DOMAIN nodes[f].data : nodes[f].data[i] = name
        \/ \E t \in Tasks : last[t].pc = "pushing" /\ last[t].uuid = name

\* the same of the writes that nobody drops
C37_EnqueuedUndropped ==
    (\A t \in Tasks : last[t].pc # "dropped") => C37_Enqueued

\* the names a path can be made of: its segments, none of which holds a
\* separator, and the names of the keystore
Segments ==
    UNION {{p[i] : i \in DOMAIN p} : p \in NamePaths} \cup {"generate", "trust"} \cup KeyFiles
        \cup {Uuids[k] : k \in DOMAIN Uuids}

(* C38: no map of a directory has the key "", "." or ".." or a key with a   *)
(* separator in it (every key is one segment of a path), whatever attach,   *)
(* create_dir, open_file with CREATE and writes to a factory were made.     *)
C38_Names ==
    \A d \in DOMAIN nodes : \A name \in DOMAIN nodes[d].map :
        name \notin Reserved /\ name \in Segments

\* the three calls and a factory have put names into maps after calls with
\* reserved names were refused
C38_Witness ==
    /\ last.op = "create_dir" /\ last.name \in Reserved /\ last.res = "inval"
    /\ \E d \in DOMAIN nodes : Cardinality(DOMAIN nodes[d].map) >= 4
    /\ \E d \in DOMAIN nodes : \E name \in DOMAIN nodes[d].map : nodes[nodes[d].map[name]].kind = "file"

\* the nodes under n through the maps
RECURSIVE Below(_, _)
Below(n, depth) ==
    LET kids == {nodes[n].map[name] : name \in DOMAIN nodes[n].map}
    IN  IF depth = 0 THEN kids ELSE kids \cup UNION {Below(k, depth - 1) : k \in kids}

\* strong edges leave directories only, and no node is under itself
Acyclic ==
    \A n \in DOMAIN nodes :
        /\ nodes[n].map # << >> => nodes[n].kind = "dir"
        /\ n \notin Below(n, Cardinality(DOMAIN nodes))

\* the map entries of the next state that this state does not have
NewEntries ==
    {e \in UNION {{<<d, name>> : name \in DOMAIN nodes'[d].map} : d \in DOMAIN nodes'} :
        e[1] \notin DOMAIN nodes \/ e[2] \notin DOMAIN nodes[e[1]].map}

ReadFrom == IF last'.op = "read_vectored_at" THEN last'.arg[3] ELSE last'.arg[1].pos

ReadRoom == IF last'.op = "peek" THEN last'.arg[2] ELSE SumOf(last'.arg[2])

\* a read at p of a file of size bytes returns without fault, nothing at or
\* beyond the end and min(room, size - p) bytes before it; read_vectored
\* moves the cursor by what it returned, the others leave it
ReadsRight(p, size) ==
    /\ last'.res = "ok"
    /\ last'.out[1] = (IF p >= size THEN 0 ELSE Min({ReadRoom, size - p}))
    /\ handles' = (IF last'.op = "read_vectored" /\ p < size
                   THEN Moved(last'.arg[1], p + last'.out[1]) ELSE handles)

(* C40: with the position at or beyond the end of the content              *)
(* read_vectored, read_vectored_at and peek return 0 bytes without fault    *)
(* and leave the cursor, as num_ready_bytes = max(0, size - cursor) says;   *)
(* before the end they copy min(capacity, size - position) bytes.           *)
C40_Reads ==
    [][/\ (last'.op \in {"read_vectored", "read_vectored_at", "peek"} /\ last'.arg[1].rd)
            => ReadsRight(ReadFrom, Len(nodes[last'.at].data))
       /\ (last'.op = "num_ready_bytes" /\ last'.arg[1].rd)
            => LET size == Len(nodes[last'.at].data)
                   pos  == last'.arg[1].pos
               IN  last'.res = "ok" /\ last'.out = <<IF size > pos THEN size - pos ELSE 0>>]_vars

\* the same of the reads that start at or before the end
C40_ReadsWithin ==
    [][(last'.op \in {"read_vectored", "read_vectored_at", "peek"} /\ last'.arg[1].rd
          /\ ReadFrom <= Len(nodes[last'.at].data))
            => ReadsRight(ReadFrom, Len(nodes[last'.at].data))]_vars

====
